---- MODULE Spec2Model ----
(***************************************************************************)
(* A model of the omniview backend: the per-platform OAuth sessions, the   *)
(* Twitch token validation policy, the CSRF state set, the followed-       *)
(* streams aggregator with its cache, and the search and top-streams       *)
(* fan-outs.                                                               *)
(*                                                                         *)
(* Data carried by provider answers is kept only as far as the handlers    *)
(* branch on it: a stream is (platform, viewer_count, id), a stored        *)
(* profile is the user id it carries.  Calls to a provider, and decoding   *)
(* of stored session values, are outcomes chosen by the environment.       *)
(***************************************************************************)
EXTENDS Integers, Sequences, FiniteSets, TLC

VARIABLES
    session,        \* request.session of each user (signed-cookie session)
    cache,          \* the key-value cache: key -> entry or None
    VALID_STATES,   \* routes/twitch/auth.py VALID_STATES
    now,            \* time.time(), in seconds
    provider,       \* per user: the validate_access_token calls made so far
    req,            \* per user: the followed-streams request in flight
    resp,           \* the followed-streams response just given, if any
    cb,             \* the Twitch /callback requests in flight
    hist,           \* history of the state tokens: issued, passed, last check
    call,           \* /authenticated requests in flight, and the last token call made
    served,         \* requests started so far (followed-streams, or token routes)
    merged,         \* the last combine-and-sort of two stream lists
    search,         \* the last search_all_platforms call
    top             \* the last unified top-streams call

vars == <<session, cache, VALID_STATES, now, provider, req, resp, cb, hist,
          call, served, merged, search, top>>

\* an absent value (a missing session key, a cache miss, no request)
None == [none |-> TRUE]

(***************************************************************************)
(* Bounds of the model.                                                    *)
(***************************************************************************)
MaxHours == 2       \* the clock stops after this many hours
MaxStreams == 2     \* longest stream list one platform returns to the merge
MaxCallbacks == 2   \* concurrent /callback requests
MaxRequests == 2    \* followed-streams requests in one behaviour
MaxTokenRequests == 2  \* /authenticated and /oauth/refresh requests in one behaviour
MaxExpiries == 2    \* the cache clock stops after this many times to live
MaxColdRequests == 3  \* top-streams fetches of Twitch in one behaviour
MaxSubscribed == 2  \* subscriptions whose live status is probed
MaxEnsureCalls == 3  \* /authenticated requests of one session followed alone
MaxPublicRequests == 2  \* /oauth/public_token requests in one behaviour
MaxChannels == 101  \* subscriptions whose channels are grouped into batches
MaxPages == 3  \* pages of the longest subscription listing
MaxPageItems == 2  \* items of the longest page

(***************************************************************************)
(* Program constants.                                                      *)
(***************************************************************************)
one_hour_in_seconds == 3600

Users == {"u1", "u2"}
Platforms == {"twitch", "youtube"}

Viewers == {0, 500, 1200}

NoCreds == [twitch_credentials |-> None, twitch_public_credentials |-> None,
            twitch_user_profile |-> None, google_credentials |-> None,
            kick_credentials |-> None, kick_public_credentials |-> None,
            state |-> None]

(***************************************************************************)
(* Streams and the combine-and-sort step of get_followed_streams.          *)
(***************************************************************************)
Stream(p, u, v, i) == [platform |-> p, owner |-> u, viewer_count |-> v, id |-> i]

\* every list of at most n streams that platform p can report for user u
StreamLists(p, u, n) ==
    UNION { { [i \in 1..k |-> Stream(p, u, f[i], i)] : f \in [1..k -> Viewers] }
            : k \in 0..n }

RECURSIVE InsertAt(_, _, _)
\* x goes behind every element whose key is at least x's key
InsertAt(x, s, i) ==
    IF i > Len(s) THEN Append(s, x)
    ELSE IF s[i].viewer_count < x.viewer_count
         THEN SubSeq(s, 1, i - 1) \o <<x>> \o SubSeq(s, i, Len(s))
         ELSE InsertAt(x, s, i + 1)

RECURSIVE InsertAtTiesFirst(_, _, _)
\* x goes in front of the elements of equal key: ties come out reversed
InsertAtTiesFirst(x, s, i) ==
    IF i > Len(s) THEN Append(s, x)
    ELSE IF s[i].viewer_count <= x.viewer_count
         THEN SubSeq(s, 1, i - 1) \o <<x>> \o SubSeq(s, i, Len(s))
         ELSE InsertAtTiesFirst(x, s, i + 1)

RECURSIVE SortTiesReversed(_)
SortTiesReversed(results) ==
    IF results = <<>> THEN <<>>
    ELSE InsertAtTiesFirst(results[Len(results)],
                           SortTiesReversed(SubSeq(results, 1, Len(results) - 1)), 1)

RECURSIVE SortByViewerCount(_)
\* results.sort(key=lambda x: x.viewer_count, reverse=True): a stable sort,
\* equal keys keep their order also under reverse=True
SortByViewerCount(results) ==
    IF results = <<>> THEN <<>>
    ELSE InsertAt(results[Len(results)],
                  SortByViewerCount(SubSeq(results, 1, Len(results) - 1)), 1)

\* results = twitch_streams + youtube_streams; results.sort(...)
CombineAndSort(twitch_streams, youtube_streams) ==
    SortByViewerCount(twitch_streams \o youtube_streams)

\* The combine-and-sort step applied to any two lists of streams.
MergeStreams ==
    \E tw \in StreamLists("twitch", "u1", MaxStreams),
       yt \in StreamLists("youtube", "u1", MaxStreams) :
        /\ merged' = [twitch_streams |-> tw, youtube_streams |-> yt,
                      results |-> CombineAndSort(tw, yt)]
        /\ UNCHANGED <<session, cache, VALID_STATES, now, provider, req, resp,
                       cb, hist, call, served, search, top>>

(***************************************************************************)
(* The sessions: OAuth logins and logouts that the aggregator depends on.  *)
(***************************************************************************)
\* the account ids the providers report for each user
TwitchId(u) == IF u = "u1" THEN "twitch-1" ELSE "twitch-2"
ChannelId(u) == IF u = "u1" THEN "channel-1" ELSE "channel-2"

Has(s, key) == s[key] # None

\* what get_oauth_token returns: the provider's token data, stamped
\* last_validated is <<t>>, or <<>> when the token data has no such key
UserToken == [access_token |-> "user", refresh_token |-> TRUE, last_validated |-> <<now>>]

\* /api/twitch/callback after the state check: token exchange, profile
\* lookup, and the two session keys it stores
StoreTwitchLogin(s, u) ==
    [s EXCEPT !.twitch_user_profile = [id |-> TwitchId(u)],
              !.twitch_credentials = UserToken]

\* /api/twitch/logout
TwitchLogoutSession(s) ==
    IF Has(s, "twitch_credentials") THEN [s EXCEPT !.twitch_credentials = None] ELSE s

\* /api/google/oauth2callback
StoreGoogleLogin(s) == [s EXCEPT !.google_credentials = [token |-> "google"]]

\* a logout that empties the whole session
LogoutEverything(s) == NoCreds

\* /api/kick/oauth/callback, once the token exchange has succeeded
StoreKickLogin(s) == [s EXCEPT !.kick_credentials = [access_token |-> "kick",
                                                     refresh_token |-> TRUE]]

\* /api/kick/clear
KickClearSession(s) ==
    IF Has(s, "kick_credentials") THEN [s EXCEPT !.kick_credentials = None] ELSE s

\* /api/google/logout: the credential is popped whatever the revocation did
GoogleLogoutSession(s) ==
    IF ~Has(s, "google_credentials") THEN s ELSE [s EXCEPT !.google_credentials = None]

(***************************************************************************)
(* The followed-streams aggregator, GET /api/following.                    *)
(***************************************************************************)
\* a provider's answer to one platform's fetch: it raises, or it is a list
FetchOutcomes(p, u) ==
    {[raises |-> TRUE, streams |-> <<>>]} \cup
    {[raises |-> FALSE, streams |-> l] : l \in {<<>>, <<Stream(p, u, IF p = "twitch" THEN 500 ELSE 1200, 1)>>}}

\* what one platform's branch meets: whether the stored credential decodes
\* and, when it does, the provider's answer; a branch that is not started
\* meets nothing
FetchInputs(p, u, started) ==
    IF ~started THEN {[decode_ok |-> TRUE, out |-> [raises |-> FALSE, streams |-> <<>>]]}
    ELSE {[decode_ok |-> FALSE, out |-> [raises |-> FALSE, streams |-> <<>>]]}
         \cup {[decode_ok |-> TRUE, out |-> o] : o \in FetchOutcomes(p, u)}

\* get_user_id_from_session: the ids of the platforms found in the session,
\* joined, or "anonymous"; the channel id needs a provider call that may fail
get_user_id_from_session(s, u, lookup_ok) ==
    LET user_ids ==
            (IF Has(s, "twitch_user_profile") THEN <<s.twitch_user_profile.id>> ELSE <<>>)
            \o (IF Has(s, "google_credentials") /\ lookup_ok THEN <<ChannelId(u)>> ELSE <<>>)
    IN  IF user_ids # <<>> THEN user_ids ELSE <<"anonymous">>

following_cache_key(user_id) == <<"unified:following">> \o user_id

\* get_cache: the stored entry, or None
get_cache(key) == IF key \in DOMAIN cache THEN cache[key] ELSE None

\* set_cache: last writer wins
set_cache(key, value, u) ==
    [k \in DOMAIN cache \cup {key} |-> IF k = key THEN [value |-> value, writer |-> u] ELSE cache[k]]

\* get_cache when the store may fail: the read is not guarded, so the
\* store's exception leaves get_cache
get_cache_call(key, store_ok) ==
    IF store_ok THEN [raised |-> FALSE, value |-> get_cache(key)]
    ELSE [raised |-> TRUE, value |-> None]

\* a set_cache that lets the store's exception escape
set_cache_call_unguarded(key, value, u, store_ok) ==
    [raised |-> ~store_ok, returned |-> store_ok,
     cache |-> IF store_ok THEN set_cache(key, value, u) ELSE cache]

\* set_cache when the store may fail: every exception is caught, logged and
\* answered with False
set_cache_call(key, value, u, store_ok) ==
    [raised |-> FALSE, returned |-> store_ok,
     cache |-> IF store_ok THEN set_cache(key, value, u) ELSE cache]

\* "if cached_data:" -- None and the empty list are both falsy
Truthy(cached_data) == cached_data # None /\ cached_data.value # <<>>

\* a branch that lets the provider's exception escape
get_streams_uncaught(has_auth, decode_ok, out) ==
    IF ~has_auth \/ ~decode_ok THEN [raised |-> FALSE, fetch |-> "none", streams |-> <<>>]
    ELSE IF out.raises THEN [raised |-> TRUE, fetch |-> "raised", streams |-> <<>>]
    ELSE [raised |-> FALSE, fetch |-> "ok", streams |-> out.streams]

\* get_twitch_streams / get_youtube_streams: the auth dependency's 401 and
\* every exception of the fetch are caught and give the empty list
get_streams(has_auth, decode_ok, out) ==
    IF ~has_auth \/ ~decode_ok THEN [raised |-> FALSE, fetch |-> "none", streams |-> <<>>]
    ELSE IF out.raises THEN [raised |-> FALSE, fetch |-> "raised", streams |-> <<>>]
    ELSE [raised |-> FALSE, fetch |-> "ok", streams |-> out.streams]

\* require_twitch_auth: both the token and the profile must be in the session
twitch_auth_present(s) == Has(s, "twitch_credentials") /\ Has(s, "twitch_user_profile")

\* require_google_auth: the credentials must be in the session
google_auth_present(s) == Has(s, "google_credentials")

TwitchLogin(u) ==
    /\ req[u] = None
    /\ session' = [session EXCEPT ![u] = StoreTwitchLogin(@, u)]
    /\ resp' = None
    /\ call' = [call EXCEPT !.last = None]
    /\ UNCHANGED <<cache, VALID_STATES, now, provider, req, cb, hist,
                   served, merged, search, top>>

TwitchLogout(u) ==
    /\ req[u] = None
    /\ session' = [session EXCEPT ![u] = TwitchLogoutSession(@)]
    /\ resp' = None
    /\ call' = [call EXCEPT !.last = None]
    /\ UNCHANGED <<cache, VALID_STATES, now, provider, req, cb, hist,
                   served, merged, search, top>>

GoogleLogin(u) ==
    /\ req[u] = None
    /\ session' = [session EXCEPT ![u] = StoreGoogleLogin(@)]
    /\ resp' = None
    /\ UNCHANGED <<cache, VALID_STATES, now, provider, req, cb, hist,
                   call, served, merged, search, top>>

GoogleLogout(u) ==
    /\ req[u] = None
    /\ session' = [session EXCEPT ![u] = GoogleLogoutSession(@)]
    /\ resp' = None
    /\ UNCHANGED <<cache, VALID_STATES, now, provider, req, cb, hist,
                   call, served, merged, search, top>>

\* the TTL of a cache entry elapses
CacheExpire(key) ==
    /\ key \in DOMAIN cache
    /\ cache' = [k \in DOMAIN cache \ {key} |-> cache[k]]
    /\ resp' = None
    /\ UNCHANGED <<session, VALID_STATES, now, provider, req, cb, hist,
                   call, served, merged, search, top>>

\* get_followed_streams up to its first network call: the user id, the cache
\* look-up and, on a miss, which platforms the session is logged in to
FollowingStart(u) ==
    /\ req[u] = None
    /\ served < MaxRequests
    /\ \E read_ok \in BOOLEAN,
          lookup_ok \in IF Has(session[u], "google_credentials") THEN BOOLEAN ELSE {TRUE} :
        LET s == session[u]
            user_id == get_user_id_from_session(s, u, lookup_ok)
            cache_key == following_cache_key(user_id)
            got == get_cache_call(cache_key, read_ok)
            cached_data == got.value
        IN  IF got.raised
            THEN /\ resp' = [user |-> u, status |-> 500, streams |-> <<>>,
                             from_cache |-> FALSE, writer |-> u,
                             had_twitch |-> Has(s, "twitch_credentials"),
                             had_google |-> Has(s, "google_credentials"),
                             twitch_fetch |-> "none", youtube_fetch |-> "none",
                             twitch_live |-> <<>>, youtube_live |-> <<>>,
                             read_raised |-> TRUE, write_failed |-> FALSE,
                             cache_before |-> <<>>]
                 /\ req' = req
            ELSE IF Truthy(cached_data)
            THEN /\ resp' = [user |-> u, status |-> 200, streams |-> cached_data.value,
                             from_cache |-> TRUE, writer |-> cached_data.writer,
                             had_twitch |-> Has(s, "twitch_credentials"),
                             had_google |-> Has(s, "google_credentials"),
                             twitch_fetch |-> "none", youtube_fetch |-> "none",
                             twitch_live |-> <<>>, youtube_live |-> <<>>,
                             read_raised |-> FALSE, write_failed |-> FALSE,
                             cache_before |-> <<>>]
                 /\ req' = req
            ELSE /\ req' = [req EXCEPT ![u] =
                             [cache_key |-> cache_key,
                              has_twitch_session |-> Has(s, "twitch_credentials"),
                              has_youtube_session |-> Has(s, "google_credentials")]]
                 /\ resp' = None
    /\ served' = served + 1
    /\ UNCHANGED <<session, cache, VALID_STATES, now, provider, cb, hist, call,
                   merged, search, top>>

\* get_followed_streams on a miss: the platform fetches, the combine-and-sort,
\* the write-through and the response
FollowingFinish(u) ==
    /\ req[u] # None
    /\ \E tw_in \in FetchInputs("twitch", u, req[u].has_twitch_session
                                               /\ twitch_auth_present(session[u])),
          yt_in \in FetchInputs("youtube", u, req[u].has_youtube_session
                                                /\ google_auth_present(session[u])) :
        LET s == session[u]
            r == req[u]
            tw == IF r.has_twitch_session
                  THEN get_streams(twitch_auth_present(s), tw_in.decode_ok, tw_in.out)
                  ELSE [raised |-> FALSE, fetch |-> "none", streams |-> <<>>]
            yt == IF r.has_youtube_session
                  THEN get_streams(google_auth_present(s), yt_in.decode_ok, yt_in.out)
                  ELSE [raised |-> FALSE, fetch |-> "none", streams |-> <<>>]
            results == CombineAndSort(tw.streams, yt.streams)
            fetch_failed == tw.raised \/ yt.raised
        IN  \E write_ok \in IF fetch_failed THEN {TRUE} ELSE BOOLEAN :
            LET w == set_cache_call(r.cache_key, results, u, write_ok)
                failed == fetch_failed \/ w.raised
            IN  /\ cache' = IF fetch_failed THEN cache ELSE w.cache
                /\ resp' = [user |-> u, status |-> IF failed THEN 500 ELSE 200,
                            streams |-> IF failed THEN <<>> ELSE results,
                            from_cache |-> FALSE, writer |-> u,
                            had_twitch |-> r.has_twitch_session,
                            had_google |-> r.has_youtube_session,
                            twitch_fetch |-> tw.fetch, youtube_fetch |-> yt.fetch,
                            twitch_live |-> IF tw.fetch = "ok" THEN tw_in.out.streams ELSE <<>>,
                            youtube_live |-> IF yt.fetch = "ok" THEN yt_in.out.streams ELSE <<>>,
                            read_raised |-> FALSE,
                            write_failed |-> ~fetch_failed /\ ~w.returned,
                            cache_before |-> IF ~fetch_failed /\ ~w.returned
                                             THEN cache ELSE <<>>]
    /\ req' = [req EXCEPT ![u] = None]
    /\ UNCHANGED <<session, VALID_STATES, now, provider, cb, hist, call, served,
                   merged, search, top>>

FollowNext ==
    \/ \E u \in Users : TwitchLogin(u)
    \/ \E u \in Users : TwitchLogout(u)
    \/ \E u \in Users : GoogleLogin(u)
    \/ \E u \in Users : GoogleLogout(u)
    \/ \E key \in DOMAIN cache : CacheExpire(key)
    \/ \E u \in Users : FollowingStart(u)
    \/ \E u \in Users : FollowingFinish(u)

(***************************************************************************)
(* The Twitch OAuth state tokens: /api/twitch/login and /callback.         *)
(***************************************************************************)
\* the values generate_state_token can return (secrets.token_hex(16))
StateTokens == {"s1", "s2"}

\* "VALID_STATES.remove(state)" left out: the state stays valid
keep_state(states, state) == states

\* "if state in VALID_STATES: VALID_STATES.remove(state)"
consume_state(states, state) == states \ {state}

\* GET /api/twitch/login
twitch_auth ==
    \E state \in StateTokens :
        /\ VALID_STATES' = VALID_STATES \cup {state}
        /\ hist' = [hist EXCEPT !.last[state] = "login", !.passes[state] = 0,
                                !.lastcb = None]
        /\ UNCHANGED <<session, cache, now, provider, req, resp, cb, call, served,
                       merged, search, top>>

\* GET /api/twitch/callback up to its first await: the error parameter, the
\* missing state, and the check-and-remove of the state.  No await separates
\* the membership test from the removal, so the event loop runs them as one
\* step.
twitch_callback_check(i, u) ==
    /\ cb[i] = None
    /\ \E state \in StateTokens \cup {""}, error \in {"", "access_denied"} :
        LET is_valid_state == state \in VALID_STATES
            checked == error = "" /\ state # ""
            passed == checked /\ is_valid_state
            before == IF state = "" THEN "none" ELSE hist.last[state]
        IN  /\ VALID_STATES' = IF checked THEN consume_state(VALID_STATES, state)
                               ELSE VALID_STATES
            /\ cb' = IF passed THEN [cb EXCEPT ![i] = [user |-> u, state |-> state]]
                     ELSE cb
            /\ hist' = [hist EXCEPT
                           !.last = IF passed THEN [@ EXCEPT ![state] = "passed"] ELSE @,
                           !.passes = IF passed THEN [@ EXCEPT ![state] = @ + 1] ELSE @,
                           !.lastcb = [state |-> state, error |-> error,
                                       passed |-> passed, before |-> before,
                                       others |-> Cardinality({j \in DOMAIN cb :
                                                     cb[j] # None /\ cb[j].state = state})]]
    /\ UNCHANGED <<session, cache, now, provider, req, resp, call, served, merged,
                   search, top>>

\* the rest of the callback: the token exchange, the profile lookup and, when
\* both succeed, the two session keys
twitch_callback_exchange(i) ==
    /\ cb[i] # None
    /\ \E exchange_ok \in BOOLEAN :
        session' = IF exchange_ok
                   THEN [session EXCEPT ![cb[i].user] = StoreTwitchLogin(@, cb[i].user)]
                   ELSE session
    /\ cb' = [cb EXCEPT ![i] = None]
    /\ hist' = [hist EXCEPT !.lastcb = None]
    /\ UNCHANGED <<cache, VALID_STATES, now, provider, req, resp, call, served,
                   merged, search, top>>

StateNext ==
    \/ twitch_auth
    \/ \E i \in 1..MaxCallbacks, u \in Users : twitch_callback_check(i, u)
    \/ \E i \in 1..MaxCallbacks : twitch_callback_exchange(i)

(***************************************************************************)
(* The Twitch token validation policy: ensure_valid_token and the routes   *)
(* that validate a stored token.                                           *)
(***************************************************************************)
\* the instants the clock can show: every full hour, and one second before
\* and after it
Instants ==
    {t \in {h * one_hour_in_seconds + j : h \in 0..MaxHours, j \in {-1, 0, 1}} : t >= 0}

\* the /authenticated requests that can be in flight together
Slots == {"a", "b"}

\* the session whose token requests are followed
TokenUsers == {"u1"}

\* what the provider answers to one validation and one refresh: a 200, a
\* non-200, or no answer at all (the HTTP client raises)
ProviderAnswers ==
    [validate : {"valid", "invalid", "error"}, refresh : {"ok", "rejected", "error"}]

\* no provider call is made, so no answer is looked at
NoAnswers == [validate |-> "none", refresh |-> "none"]

\* credentials.get("last_validated", 0)
last_validated_of(credentials) ==
    IF credentials.last_validated = <<>> THEN 0 ELSE credentials.last_validated[1]

\* refresh_oauth_token's return value: the provider's JSON, unstamped
refreshed_token_data == [access_token |-> "refreshed", refresh_token |-> TRUE,
                         last_validated |-> <<>>]

\* get_client_credentials_oauth_token's return value: an app token, stamped
app_token_data(t) == [access_token |-> "app", refresh_token |-> FALSE,
                      last_validated |-> <<t>>]

credentials_key_of(s) ==
    IF Has(s, "twitch_credentials") THEN "twitch_credentials"
    ELSE IF Has(s, "twitch_public_credentials") THEN "twitch_public_credentials"
    ELSE ""

\* request.session[credentials_key]
Cred0(s) == s[credentials_key_of(s)]

force_validation(credentials, current_time) ==
    (current_time - last_validated_of(credentials)) >= one_hour_in_seconds

Outcome(s, returned, raised, validate_calls, refresh_calls) ==
    [session |-> s, returned |-> returned, raised |-> raised,
     validate_calls |-> validate_calls, refresh_calls |-> refresh_calls]

\* a refresh that stores the new token data without stamping it
ensure_valid_token_unstamped(s, current_time, answers) ==
    LET credentials_key == credentials_key_of(s)
        credentials == s[credentials_key]
        stamped == [credentials EXCEPT !.last_validated = <<current_time>>]
    IN  IF credentials_key = "" THEN Outcome(s, FALSE, FALSE, 0, 0)
        ELSE IF credentials.access_token = "" THEN Outcome(s, FALSE, FALSE, 0, 0)
        ELSE IF ~force_validation(credentials, current_time)
             THEN Outcome(s, TRUE, FALSE, 0, 0)
        ELSE IF answers.validate = "error" THEN Outcome(s, FALSE, TRUE, 1, 0)
        ELSE IF answers.validate = "invalid" /\ credentials.refresh_token
             THEN IF answers.refresh = "ok"
                  THEN Outcome([s EXCEPT ![credentials_key] = refreshed_token_data],
                               TRUE, FALSE, 1, 1)
                  ELSE IF answers.refresh = "rejected"
                  THEN Outcome([s EXCEPT ![credentials_key] = None], FALSE, FALSE, 1, 1)
                  ELSE Outcome(s, FALSE, TRUE, 1, 1)
        ELSE Outcome([s EXCEPT ![credentials_key] = stamped],
                     answers.validate = "valid", FALSE, 1, 0)

\* ensure_valid_token on the session s of a request made at current_time;
\* raised: an exception other than HTTPException left the function
ensure_valid_token(s, current_time, answers) ==
    LET credentials_key == credentials_key_of(s)
        credentials == s[credentials_key]
        stamped == [credentials EXCEPT !.last_validated = <<current_time>>]
    IN  IF credentials_key = "" THEN Outcome(s, FALSE, FALSE, 0, 0)
        ELSE IF credentials.access_token = "" THEN Outcome(s, FALSE, FALSE, 0, 0)
        ELSE IF ~force_validation(credentials, current_time)
             THEN Outcome(s, TRUE, FALSE, 0, 0)
        ELSE IF answers.validate = "error" THEN Outcome(s, FALSE, TRUE, 1, 0)
        ELSE IF answers.validate = "invalid" /\ credentials.refresh_token
             THEN IF answers.refresh = "ok"
                  THEN Outcome([s EXCEPT ![credentials_key] =
                                   [refreshed_token_data EXCEPT
                                       !.last_validated = <<current_time>>]],
                               TRUE, FALSE, 1, 1)
                  ELSE IF answers.refresh = "rejected"
                  THEN Outcome([s EXCEPT ![credentials_key] = None], FALSE, FALSE, 1, 1)
                  ELSE Outcome(s, FALSE, TRUE, 1, 1)
        ELSE Outcome([s EXCEPT ![credentials_key] = stamped],
                     answers.validate = "valid", FALSE, 1, 0)

\* one more validate_access_token call on a session, at time t
LogValidate(p, t) ==
    [validated_at |-> <<t>>,
     early |-> p.early \/ (p.validated_at # <<>>
                           /\ t - p.validated_at[1] < one_hour_in_seconds)]

\* GET /api/twitch/authenticated from the return of ensure_valid_token on:
\* answer with the stored token, or fetch an app token and store it.  A
\* response that leaves through the session middleware rewrites the cookie
\* from the request's session; an unhandled exception does not.
index_respond(u, s, current_time, answers, issue_ok) ==
    LET called == Has(s, "twitch_credentials")
        r == IF called THEN ensure_valid_token(s, current_time, answers)
             ELSE Outcome(s, FALSE, FALSE, 0, 0)
        status == IF r.raised THEN 500
                  ELSE IF called /\ r.returned THEN 200
                  ELSE IF issue_ok THEN 200 ELSE 400
        after == IF r.raised THEN session[u]
                 ELSE IF called /\ r.returned THEN r.session
                 ELSE IF issue_ok
                      THEN [r.session EXCEPT !.twitch_credentials = app_token_data(now)]
                      ELSE r.session
    IN  [after |-> after,
         last |-> [user |-> u, route |-> "authenticated", called |-> called,
                   before |-> s, current_time |-> current_time,
                   answers |-> answers, result |-> r, status |-> status]]

\* GET /api/twitch/authenticated up to its first await, in the first free
\* slot.  With no forced validation the handler's only await is the
\* app-token request, and the request completes in this step.
index_request(u, sl, limit) ==
    /\ call.inflight[sl] = None
    /\ sl = "a" \/ call.inflight["a"] # None
    /\ req[u] = None
    /\ served < limit
    /\ served' = served + 1
    /\ LET s == session[u]
       IN  IF Has(s, "twitch_credentials")
              /\ s.twitch_credentials.access_token # ""
              /\ force_validation(s.twitch_credentials, now)
           THEN /\ call' = [call EXCEPT !.inflight[sl] =
                               [user |-> u, session |-> s, current_time |-> now],
                            !.last = None]
                /\ provider' = [provider EXCEPT ![u] = LogValidate(@, now)]
                /\ UNCHANGED session
           ELSE /\ \E issue_ok \in BOOLEAN :
                       LET done == index_respond(u, s, now, NoAnswers, issue_ok)
                       IN  /\ session' = [session EXCEPT ![u] = done.after]
                           /\ call' = [call EXCEPT !.last = done.last]
                /\ UNCHANGED provider
    /\ resp' = None
    /\ UNCHANGED <<cache, VALID_STATES, now, req, cb, hist, merged, search, top>>

index_start(u, sl) == index_request(u, sl, MaxTokenRequests)

\* the rest of the handler, once the provider has answered the validation
index_finish(sl) ==
    /\ call.inflight[sl] # None
    /\ \E answers \in ProviderAnswers, issue_ok \in BOOLEAN :
          LET r == call.inflight[sl]
              done == index_respond(r.user, r.session, r.current_time, answers, issue_ok)
          IN  /\ session' = [session EXCEPT ![r.user] = done.after]
              /\ call' = [call EXCEPT !.inflight[sl] = None, !.last = done.last]
    /\ resp' = None
    /\ UNCHANGED <<cache, VALID_STATES, now, provider, req, cb, hist, served,
                   merged, search, top>>

token_key(user_id) == <<"token:twitch", user_id>>

\* GET /api/twitch/oauth/refresh.  HTTPExceptions raised inside its try
\* block, like every other exception there, come out as a 500.
refresh_token(u) ==
    /\ req[u] = None
    /\ served < MaxTokenRequests
    /\ served' = served + 1
    /\ \E profile_ok \in BOOLEAN, answers \in ProviderAnswers :
        LET s == session[u]
            proceeds == Has(s, "twitch_credentials") /\ Has(s, "twitch_user_profile")
                        /\ profile_ok
            key == token_key(s.twitch_user_profile.id)
            stored == get_cache(key)
            token_data == IF stored # None THEN stored.value ELSE s.twitch_credentials
            validates == proceeds /\ token_data.refresh_token
            refreshes == validates /\ answers.validate = "invalid"
            refreshed == refreshes /\ answers.refresh = "ok"
            new_token_data == refreshed_token_data
            consulted == IF ~validates THEN NoAnswers
                         ELSE IF ~refreshes THEN [answers EXCEPT !.refresh = "none"]
                         ELSE answers
            cache1 == IF proceeds /\ stored = None
                      THEN set_cache(key, token_data, u) ELSE cache
            status == IF ~Has(s, "twitch_credentials") THEN 401
                      ELSE IF ~validates THEN 500
                      ELSE IF answers.validate = "valid" THEN 200
                      ELSE IF refreshed THEN 200 ELSE 500
        IN  /\ cache' = IF refreshed
                        THEN [k \in DOMAIN cache1 |->
                                 IF k = key THEN [value |-> new_token_data, writer |-> u]
                                 ELSE cache1[k]]
                        ELSE cache1
            /\ session' = IF refreshed
                          THEN [session EXCEPT ![u].twitch_credentials = new_token_data]
                          ELSE session
            /\ provider' = IF validates THEN [provider EXCEPT ![u] = LogValidate(@, now)]
                           ELSE provider
            /\ call' = [call EXCEPT !.last =
                           [user |-> u, route |-> "refresh", called |-> FALSE,
                            before |-> s, current_time |-> now, answers |-> consulted,
                            result |-> Outcome(s, FALSE, FALSE,
                                               IF validates THEN 1 ELSE 0,
                                               IF refreshes THEN 1 ELSE 0),
                            token_data |-> IF proceeds THEN token_data ELSE None,
                            missing |-> IF ~Has(s, "twitch_credentials")
                                        THEN "twitch_credentials"
                                        ELSE IF ~proceeds THEN "twitch_user_profile"
                                        ELSE IF ~token_data.refresh_token
                                        THEN "refresh_token" ELSE "none",
                            status |-> status]]
    /\ resp' = None
    /\ UNCHANGED <<VALID_STATES, now, req, cb, hist, merged, search, top>>

\* time passes; the clock is coarse, and a request in flight is answered
\* before it shows the next instant
Tick ==
    /\ \A sl \in Slots : call.inflight[sl] = None
    /\ \E t \in Instants : t > now /\ now' = t
    /\ call' = [call EXCEPT !.last = None]
    /\ resp' = None
    /\ UNCHANGED <<session, cache, VALID_STATES, provider, req, cb, hist, served,
                   merged, search, top>>

\* the /authenticated requests of one session alone, one more of them than
\* the mixed requests above
index_again(u, sl) == index_request(u, sl, MaxEnsureCalls)

EnsureNext ==
    \/ Tick
    \/ \E u \in TokenUsers : TwitchLogin(u)
    \/ \E u \in TokenUsers, sl \in Slots : index_again(u, sl)
    \/ \E sl \in Slots : index_finish(sl)

TokenNext ==
    \/ Tick
    \/ \E u \in TokenUsers : TwitchLogin(u)
    \/ \E u \in TokenUsers : TwitchLogout(u)
    \/ \E u \in TokenUsers, sl \in Slots : index_start(u, sl)
    \/ \E sl \in Slots : index_finish(sl)
    \/ \E u \in TokenUsers : refresh_token(u)

(***************************************************************************)
(* The sessions of the three platforms side by side.                       *)
(***************************************************************************)
KickLogin(u) ==
    /\ req[u] = None
    /\ session' = [session EXCEPT ![u] = StoreKickLogin(@)]
    /\ resp' = None
    /\ call' = [call EXCEPT !.last = None]
    /\ UNCHANGED <<cache, VALID_STATES, now, provider, req, cb, hist,
                   served, merged, search, top>>

KickClear(u) ==
    /\ req[u] = None
    /\ session' = [session EXCEPT ![u] = KickClearSession(@)]
    /\ resp' = None
    /\ call' = [call EXCEPT !.last = None]
    /\ UNCHANGED <<cache, VALID_STATES, now, provider, req, cb, hist,
                   served, merged, search, top>>

SessionNext ==
    \/ Tick
    \/ \E u \in TokenUsers : TwitchLogin(u)
    \/ \E u \in TokenUsers : GoogleLogin(u)
    \/ \E u \in TokenUsers : KickLogin(u)
    \/ \E u \in TokenUsers : TwitchLogout(u)
    \/ \E u \in TokenUsers : GoogleLogout(u)
    \/ \E u \in TokenUsers : KickClear(u)
    \/ \E u \in TokenUsers : index_start(u, "a")
    \/ index_finish("a")

(***************************************************************************)
(* The search fan-out: search_all_platforms.                               *)
(***************************************************************************)
SearchPlatforms == {"kick", "twitch", "youtube"}

Usernames == {"ann", "Ann"}

\* username.lower()
Lower(username) == IF username = "Ann" THEN "ann" ELSE username

\* what one platform's search call can do: raise, find nothing, find the user
SearchOutcomes == {"raises", "empty", "found"}

\* search_kick / search_twitch / search_youtube for one outcome of the
\* provider call: it raises, or it returns a value.  With an empty answer
\* search_kick returns the provider's JSON as it is, the other two None.
search_platform(p, username, outcome) ==
    IF outcome = "raises" THEN [raises |-> TRUE, value |-> None]
    ELSE IF outcome = "found"
         THEN [raises |-> FALSE, value |-> [id |-> <<p, username>>]]
    ELSE IF p = "kick" THEN [raises |-> FALSE, value |-> [id |-> <<>>]]
    ELSE [raises |-> FALSE, value |-> None]

\* wrap: every exception of the call becomes None
wrap(r) == IF r.raises THEN None ELSE r.value

\* the results of the gather taken in the wrong order
platform_data_shifted(results) ==
    [twitch |-> results[1], kick |-> results[2], youtube |-> results[3]]

\* results = gather(kick, twitch, youtube), then the dict by platform
platform_data(results) ==
    [twitch |-> results[2], kick |-> results[1], youtube |-> results[3]]

\* standardize_*_search_result: None for a falsy value, else the platform's
\* StreamerSearchResult with the id of the value
standardize_search_result(p, d) ==
    IF d = None THEN None ELSE [platform |-> p, id |-> d.id]

standardize_search_results(data) ==
    [p \in SearchPlatforms |-> standardize_search_result(p, data[p])]

search_cache_key(username) == <<"search:all", Lower(username)>>

search_all_platforms ==
    \E username \in Usernames, has_twitch \in BOOLEAN, has_kick \in BOOLEAN,
       has_youtube_key \in BOOLEAN, outcome \in [SearchPlatforms -> SearchOutcomes] :
        LET cache_key == search_cache_key(username)
            cached == get_cache(cache_key)
            results == <<wrap(search_platform("kick", username, outcome["kick"])),
                         wrap(search_platform("twitch", username, outcome["twitch"])),
                         wrap(search_platform("youtube", username, outcome["youtube"]))>>
            data == platform_data(results)
            lacking == {p \in SearchPlatforms :
                           \/ p = "twitch" /\ ~has_twitch
                           \/ p = "kick" /\ ~has_kick
                           \/ p = "youtube" /\ ~has_youtube_key}
        IN  IF cached # None
            THEN /\ search' = [username |-> username, from_cache |-> TRUE,
                               status |-> 200, outcome |-> outcome, lacking |-> {},
                               result |-> standardize_search_results(cached.value)]
                 /\ UNCHANGED cache
            ELSE IF ~has_twitch \/ ~has_kick \/ ~has_youtube_key
            THEN /\ search' = [username |-> username, from_cache |-> FALSE,
                               status |-> 401, outcome |-> outcome,
                               lacking |-> lacking, result |-> None]
                 /\ UNCHANGED cache
            ELSE /\ search' = [username |-> username, from_cache |-> FALSE,
                               status |-> 200, outcome |-> outcome, lacking |-> {},
                               result |-> standardize_search_results(data)]
                 /\ cache' = set_cache(cache_key, data, "any")

SearchCall ==
    /\ search_all_platforms
    /\ UNCHANGED <<session, VALID_STATES, now, provider, req, resp, cb, hist, call,
                   served, merged, top>>

SearchCacheExpire ==
    /\ \E key \in DOMAIN cache : cache' = [k \in DOMAIN cache \ {key} |-> cache[k]]
    /\ search' = None
    /\ UNCHANGED <<session, VALID_STATES, now, provider, req, resp, cb, hist, call,
                   served, merged, top>>

SearchNext == SearchCall \/ SearchCacheExpire

(***************************************************************************)
(* The unified top-streams endpoint, GET /api/top_streams.                 *)
(***************************************************************************)
top_cache_key(p) ==
    IF p = "twitch" THEN <<"twitch:public:top_streams">>
    ELSE IF p = "kick" THEN <<"kick:public:top_streams">>
    ELSE <<"google:public:top_streams">>

\* what one platform's top-streams fetch can do: raise (the provider
\* answered non-200, or the call failed), or return a list of streams
TopOutcomes(p) ==
    {[raises |-> TRUE, streams |-> <<>>]} \cup
    {[raises |-> FALSE, streams |-> l] : l \in {<<>>, <<Stream(p, "any", 500, 1)>>}}

\* get_twitch / get_kick / get_youtube: the cached list, or the fetched one
get_platform(p, out) ==
    LET cached == get_cache(top_cache_key(p))
    IN  IF cached # None THEN [raised |-> FALSE, streams |-> cached.value.data, fetched |-> FALSE]
        ELSE IF out.raises THEN [raised |-> TRUE, streams |-> <<>>, fetched |-> FALSE]
        ELSE [raised |-> FALSE, streams |-> out.streams, fetched |-> TRUE]

top_streams ==
    \E has_twitch \in BOOLEAN, has_kick \in BOOLEAN, has_youtube_key \in BOOLEAN,
       out \in [SearchPlatforms -> UNION {TopOutcomes(p) : p \in SearchPlatforms}] :
        /\ \A p \in SearchPlatforms : out[p] \in TopOutcomes(p)
        /\ LET has_credentials == has_twitch /\ has_kick /\ has_youtube_key
               branch == [p \in SearchPlatforms |-> get_platform(p, out[p])]
               failed == \E p \in SearchPlatforms : branch[p].raised
               written == {top_cache_key(p) : p \in {q \in SearchPlatforms : branch[q].fetched}}
           IN  IF ~has_credentials
               THEN /\ top' = [has_credentials |-> FALSE, status |-> 500,
                               cached |-> {}, out |-> out, result |-> None]
                    /\ UNCHANGED cache
               ELSE /\ top' = [has_credentials |-> TRUE,
                               status |-> IF failed THEN 500 ELSE 200,
                               cached |-> {p \in SearchPlatforms :
                                              get_cache(top_cache_key(p)) # None},
                               out |-> out,
                               result |-> IF failed THEN None
                                          ELSE [p \in SearchPlatforms |-> branch[p].streams]]
                    /\ cache' = [k \in DOMAIN cache \cup written |->
                                    IF k \in written
                                    THEN [value |-> [data |-> branch[CHOOSE p \in SearchPlatforms :
                                                        top_cache_key(p) = k].streams],
                                          writer |-> "any"]
                                    ELSE cache[k]]

TopCall ==
    /\ top_streams
    /\ UNCHANGED <<session, VALID_STATES, now, provider, req, resp, cb, hist, call,
                   served, merged, search>>

TopCacheExpire ==
    /\ \E key \in DOMAIN cache : cache' = [k \in DOMAIN cache \ {key} |-> cache[k]]
    /\ top' = None
    /\ UNCHANGED <<session, VALID_STATES, now, provider, req, resp, cb, hist, call,
                   served, merged, search>>

TopNext == TopCall \/ TopCacheExpire

(***************************************************************************)
(* The cache helpers over the Redis store: values, their JSON text, the    *)
(* expiry of entries, and the read-through fetcher of the top streams.     *)
(***************************************************************************)
TWITCH_CACHE_EXPIRY_SECONDS == 60
KICK_CACHE_EXPIRY_SECONDS == 120

\* Python values: None, [int |-> n], [str |-> s], [list |-> seq],
\* [tuple |-> seq], [dict |-> seq of [k, v]] (at most one item) and the
\* pydantic model [model |-> id], a Stream with that id
PyInt(n) == [int |-> n]
PyStr(s) == [str |-> s]
PyList(l) == [list |-> l]
PyTuple(l) == [tuple |-> l]
PyDict(items) == [dict |-> items]
PyModel(id) == [model |-> id]

Is(x, tag) == tag \in DOMAIN x

Leaves == {None, PyInt(0), PyInt(7), PyStr(""), PyStr("a")}

Flat == Leaves \cup {PyList(<<>>), PyDict(<<>>)}
             \cup {PyList(<<x>>) : x \in Leaves} \cup {PyTuple(<<x>>) : x \in Leaves}
             \cup {PyDict(<<[k |-> k, v |-> x]>>) : k \in {PyStr("a"), PyInt(7)}, x \in Leaves}

\* the JSON-serializable values handed to set_cache
JsonSerializable ==
    Flat \cup {PyDict(<<[k |-> PyStr("data"), v |-> l]>>) :
                  l \in {PyList(<<>>), PyList(<<PyInt(7)>>), PyTuple(<<PyStr("a")>>)}}
         \cup {PyList(<<PyList(<<>>), PyTuple(<<PyInt(0)>>)>>)}

\* str(n) for the integers that occur as dictionary keys
IntText(n) == IF n = 0 THEN "0" ELSE "7"

RECURSIVE jsonable_encoder(_)
\* fastapi's jsonable_encoder: a model becomes the dict of its fields, a
\* tuple becomes a list, containers are encoded item by item
jsonable_encoder(x) ==
    IF Is(x, "model") THEN PyDict(<<[k |-> PyStr("id"), v |-> PyStr(x.model)]>>)
    ELSE IF Is(x, "tuple") THEN PyList([i \in DOMAIN x.tuple |-> jsonable_encoder(x.tuple[i])])
    ELSE IF Is(x, "list") THEN PyList([i \in DOMAIN x.list |-> jsonable_encoder(x.list[i])])
    ELSE IF Is(x, "dict")
         THEN PyDict([i \in DOMAIN x.dict |-> [k |-> jsonable_encoder(x.dict[i].k),
                                               v |-> jsonable_encoder(x.dict[i].v)]])
    ELSE x

RECURSIVE json_dumps(_)
\* json.dumps: the JSON text, kept as its syntax tree; lists and tuples are
\* both arrays, the keys of an object are strings, a model is no JSON value
json_dumps(x) ==
    IF x = None THEN [jnull |-> TRUE]
    ELSE IF Is(x, "int") THEN [jnum |-> x.int]
    ELSE IF Is(x, "str") THEN [jstr |-> x.str]
    ELSE IF Is(x, "list") THEN [jarr |-> [i \in DOMAIN x.list |-> json_dumps(x.list[i])]]
    ELSE IF Is(x, "tuple") THEN [jarr |-> [i \in DOMAIN x.tuple |-> json_dumps(x.tuple[i])]]
    ELSE IF Is(x, "dict")
         THEN [jobj |-> [i \in DOMAIN x.dict |->
                           [k |-> IF Is(x.dict[i].k, "int") THEN IntText(x.dict[i].k.int)
                                  ELSE x.dict[i].k.str,
                            v |-> json_dumps(x.dict[i].v)]]]
    ELSE [jerror |-> "TypeError"]

RECURSIVE json_loads(_)
\* json.loads: arrays come back as lists, objects as dicts with str keys
json_loads(j) ==
    IF Is(j, "jnull") THEN None
    ELSE IF Is(j, "jnum") THEN PyInt(j.jnum)
    ELSE IF Is(j, "jstr") THEN PyStr(j.jstr)
    ELSE IF Is(j, "jarr") THEN PyList([i \in DOMAIN j.jarr |-> json_loads(j.jarr[i])])
    ELSE PyDict([i \in DOMAIN j.jobj |-> [k |-> PyStr(j.jobj[i].k),
                                          v |-> json_loads(j.jobj[i].v)]])

\* bool(x) of a Python value
PyTruthy(x) ==
    IF x = None THEN FALSE
    ELSE IF Is(x, "int") THEN x.int # 0
    ELSE IF Is(x, "str") THEN x.str # ""
    ELSE IF Is(x, "list") THEN x.list # <<>>
    ELSE IF Is(x, "tuple") THEN x.tuple # <<>>
    ELSE IF Is(x, "dict") THEN x.dict # <<>>
    ELSE TRUE

\* redis GET at time t: the stored text, or None for a key that was never
\* set or whose time to live has run out
redis_get(key, t) ==
    IF key \in DOMAIN cache /\ t < cache[key].expires_at THEN cache[key].text ELSE None

\* redis SETEX at time t: replaces the key's text and its time to live; data
\* and writer are kept beside the text for the properties only
redis_setex(key, expiration, text, t, data, writer) ==
    [k \in DOMAIN cache \cup {key} |->
        IF k = key THEN [text |-> text, expires_at |-> t + expiration, set_at |-> t,
                         expiration |-> expiration, data |-> data, writer |-> writer]
        ELSE cache[k]]

\* a get_cache that tests the decoded value instead of the stored text
get_cache_decoded_truthy(key, t) ==
    LET cached_data == redis_get(key, t)
    IN  IF cached_data # None /\ PyTruthy(json_loads(cached_data))
        THEN json_loads(cached_data) ELSE None

\* get_cache: "if cached_data:" tests the stored bytes, and the text of a
\* JSON value is never empty
get_cache_at(key, t) ==
    LET cached_data == redis_get(key, t)
    IN  IF cached_data # None THEN json_loads(cached_data) ELSE None

\* set_cache at time t: encode, dump, SETEX; every exception is caught and
\* answered with False
set_cache_at(key, data, expiration, t, writer, store_ok) ==
    LET serializable_data == jsonable_encoder(data)
        text == json_dumps(serializable_data)
    IN  IF store_ok
        THEN [returned |-> TRUE,
              cache |-> redis_setex(key, expiration, text, t, data, writer)]
        ELSE [returned |-> FALSE, cache |-> cache]

\* the moments the cache is looked at: around the multiples of the shortest
\* time to live
CacheInstants ==
    {t \in {k * TWITCH_CACHE_EXPIRY_SECONDS + j : k \in 0..MaxExpiries, j \in {-1, 0, 1}} :
        t >= 0}

CacheKeys == {"twitch:following:u1"}

\* every caller passes a positive constant as the time to live
Expirations == {TWITCH_CACHE_EXPIRY_SECONDS, KICK_CACHE_EXPIRY_SECONDS}

\* time passes
CacheClock ==
    /\ \E t \in CacheInstants : t > now /\ now' = t
    /\ UNCHANGED <<session, cache, VALID_STATES, provider, req, resp, cb, hist,
                   call, served, merged, search, top>>

\* a caller's "await set_cache(key, data, expiration)"
CacheSet ==
    \E key \in CacheKeys, data \in JsonSerializable, expiration \in Expirations,
       store_ok \in BOOLEAN :
        LET w == set_cache_at(key, data, expiration, now, "caller", store_ok)
        IN  /\ cache' = w.cache
            /\ resp' = [op |-> "set", key |-> key, returned |-> w.returned, at |-> now]
            /\ UNCHANGED <<session, VALID_STATES, now, provider, req, cb, hist,
                           call, served, merged, search, top>>

\* a caller's "await get_cache(key)"
CacheGet ==
    \E key \in CacheKeys :
        /\ resp' = [op |-> "get", key |-> key, returned |-> get_cache_at(key, now),
                    at |-> now]
        /\ UNCHANGED <<session, cache, VALID_STATES, now, provider, req, cb, hist,
                       call, served, merged, search, top>>

CacheNext == CacheClock \/ CacheSet \/ CacheGet

twitch_cache_key == "twitch:public:top_streams"

StreamIds == {"s1", "s2"}

\* twitch_public.get_top_streams: it raises, or it answers with "data"
TopResponses ==
    {[raises |-> TRUE, data |-> <<>>]}
    \cup {[raises |-> FALSE, data |-> l] : l \in {<<>>} \cup {<<PyStr(id)>> : id \in StreamIds}}

\* Stream.model_validate of a fetched item
validate_fetched(item) == PyModel(item.str)

\* Stream.model_validate of a cached item, the dict jsonable_encoder made
validate_cached(item) == PyModel(item.dict[1].v.str)

\* isinstance(cached, dict) and "data" in cached
has_data(cached) ==
    Is(cached, "dict") /\ \E i \in DOMAIN cached.dict : cached.dict[i].k = PyStr("data")

\* cached["data"]
data_of(cached) ==
    LET i == CHOOSE i \in DOMAIN cached.dict : cached.dict[i].k = PyStr("data")
    IN  cached.dict[i].v.list

\* a fetcher that looks at the cache again after its fetch and answers with
\* what it finds there
get_twitch_returned_reread(standardized, t) ==
    LET cached == get_cache_at(twitch_cache_key, t)
    IN  IF has_data(cached)
        THEN [i \in DOMAIN data_of(cached) |-> validate_cached(data_of(cached)[i])]
        ELSE standardized

\* "return standardized": the fetcher answers with what it fetched itself
get_twitch_returned(standardized, t) == standardized

\* get_twitch up to its fetch: the cache look-up and, on a hit, the answer
get_twitch_start(u) ==
    /\ req[u] # None => req[u].phase = "done"
    /\ served < MaxColdRequests
    /\ served' = served + 1
    /\ LET cached == get_cache_at(twitch_cache_key, now)
       IN  req' = [req EXCEPT ![u] =
                    IF has_data(cached)
                    THEN [phase |-> "done", hit |-> TRUE, raced |-> FALSE,
                          failed |-> FALSE, response |-> <<>>,
                          returned |-> [i \in DOMAIN data_of(cached) |->
                                           validate_cached(data_of(cached)[i])]]
                    ELSE [phase |-> "fetching", hit |-> FALSE, raced |-> FALSE,
                          failed |-> FALSE, response |-> <<>>, returned |-> <<>>]]
    /\ UNCHANGED <<session, cache, VALID_STATES, now, provider, resp, cb, hist,
                   call, merged, search, top>>

\* get_twitch from the provider's answer on: validate, write through, return
get_twitch_finish(u) ==
    /\ req[u] # None /\ req[u].phase = "fetching"
    /\ \E response \in TopResponses,
          store_ok \in BOOLEAN :
        LET standardized == [i \in DOMAIN response.data |-> validate_fetched(response.data[i])]
            data == PyDict(<<[k |-> PyStr("data"), v |-> PyList(standardized)]>>)
            w == set_cache_at(twitch_cache_key, data, TWITCH_CACHE_EXPIRY_SECONDS,
                              now, u, store_ok)
            others == {v \in Users \ {u} : req[v] # None /\ req[v].phase = "fetching"}
        IN  IF response.raises
            THEN /\ req' = [v \in Users |->
                             IF v = u THEN [req[u] EXCEPT !.phase = "done", !.failed = TRUE]
                             ELSE req[v]]
                 /\ UNCHANGED <<cache, top>>
            ELSE /\ cache' = w.cache
                 /\ top' = IF w.returned THEN [last_write |-> [writer |-> u, data |-> data]]
                           ELSE top
                 /\ req' = [v \in Users |->
                             IF v = u
                             THEN [req[u] EXCEPT !.phase = "done",
                                                 !.raced = @ \/ others # {},
                                                 !.response = response.data,
                                                 !.returned = get_twitch_returned(standardized, now)]
                             ELSE IF v \in others THEN [req[v] EXCEPT !.raced = TRUE]
                             ELSE req[v]]
    /\ UNCHANGED <<session, VALID_STATES, now, provider, resp, cb, hist, call,
                   served, merged, search>>

ColdKeyNext ==
    \/ CacheClock
    \/ \E u \in Users : get_twitch_start(u)
    \/ \E u \in Users : get_twitch_finish(u)

(***************************************************************************)
(* Token exchanges and refreshes against the providers: the Kick OAuth     *)
(* callback and refresh endpoints, and the Twitch token functions.         *)
(***************************************************************************)
\* a provider's answer to a POST on its token endpoint; a status of 0
\* stands for a request that raised instead of being answered
TokenResponses ==
    {[status_code |-> 200, text |-> "credentials"], [status_code |-> 200, text |-> "{}"],
     [status_code |-> 400, text |-> "invalid_grant"],
     [status_code |-> 503, text |-> "unavailable"],
     [status_code |-> 0, text |-> ""]}

NoResponse == [status_code |-> 0, text |-> "not called"]

\* HTTPException(status_code, detail): body is the provider's text when the
\* detail quotes it; inner_status is the status that str() of a caught
\* HTTPException puts in front of the detail, 0 when there is none
Error(status_code, message, body, inner_status) ==
    [status_code |-> status_code, message |-> message, body |-> body,
     inner_status |-> inner_status]

NoError == Error(0, "", "", 0)

\* "except Exception as e: raise HTTPException(status_code=500, detail=str(e))"
Wrapped(e) == Error(500, e.message, e.body, e.status_code)

\* the state parameters a client can send back to the Kick callback: text
\* that is no base64 of JSON, JSON without "codeVerifier", and the state of
\* an /oauth redirect with the verifier made there or with another one
KickStates == {"garbage", "e30=", "verifier-1", "verifier-2"}

\* a decoding that falls back to an empty verifier
decode_state_defaulting(state) ==
    IF state \in {"verifier-1", "verifier-2"} THEN [ok |-> TRUE, codeVerifier |-> state]
    ELSE [ok |-> TRUE, codeVerifier |-> ""]

\* json.loads(base64.urlsafe_b64decode(state).decode())["codeVerifier"]
decode_state(state) ==
    IF state \in {"verifier-1", "verifier-2"} THEN [ok |-> TRUE, codeVerifier |-> state]
    ELSE [ok |-> FALSE, codeVerifier |-> ""]

\* GET /api/kick/oauth/callback
kick_oauth_callback(u) ==
    /\ \E code \in {"", "code"}, state \in KickStates, response \in TokenResponses :
        LET s == session[u]
            decoded == decode_state(state)
            exchange_called == code # "" /\ decoded.ok
            error == IF code = "" THEN Error(400, "Missing authorization code", "", 0)
                     ELSE IF ~decoded.ok THEN Error(500, "decode error", "", 0)
                     ELSE IF response.status_code = 0
                     THEN Error(500, "request error", "", 0)
                     ELSE IF response.status_code # 200
                     THEN Wrapped(Error(response.status_code, "Failed to get token", "", 0))
                     ELSE IF response.text = "{}"
                     THEN Wrapped(Error(400, "No credentials found", "", 0))
                     ELSE NoError
        IN  /\ session' = IF error = NoError
                          THEN [session EXCEPT ![u] = StoreKickLogin(s)] ELSE session
            /\ resp' = [route |-> "kick_oauth_callback", user |-> u, code |-> code,
                        state |-> state, before |-> s,
                        exchange_called |-> exchange_called,
                        code_verifier |-> IF exchange_called THEN decoded.codeVerifier ELSE "",
                        response |-> IF exchange_called THEN response ELSE NoResponse,
                        status_code |-> IF error = NoError THEN 302 ELSE error.status_code,
                        error |-> error]
    /\ UNCHANGED <<cache, VALID_STATES, now, provider, req, cb, hist, call, served,
                   merged, search, top>>

\* what a successful refresh stores in place of the old credentials
refreshed_kick_credentials == [access_token |-> "kick-refreshed", refresh_token |-> TRUE]

\* GET /api/kick/oauth/refresh
kick_refresh_token(u) ==
    /\ \E response \in TokenResponses :
        LET s == session[u]
            has_credentials == Has(s, "kick_credentials")
            exchange_called == has_credentials /\ s.kick_credentials.refresh_token
            error == IF ~has_credentials
                     THEN Error(401, "No authenticated session found", "", 0)
                     ELSE IF ~s.kick_credentials.refresh_token
                     THEN Error(400, "No refresh token found in current session", "", 0)
                     ELSE IF response.status_code = 0
                     THEN Error(500, "request error", "", 0)
                     ELSE IF response.status_code # 200
                     THEN Wrapped(Error(response.status_code, "Failed to refresh token",
                                        response.text, 0))
                     ELSE NoError
        IN  /\ session' = IF error = NoError
                          THEN [session EXCEPT ![u].kick_credentials =
                                   refreshed_kick_credentials]
                          ELSE session
            /\ resp' = [route |-> "kick_refresh_token", user |-> u, code |-> "",
                        state |-> "", before |-> s,
                        exchange_called |-> exchange_called, code_verifier |-> "",
                        response |-> IF exchange_called THEN response ELSE NoResponse,
                        status_code |-> IF error = NoError THEN 200 ELSE error.status_code,
                        error |-> error]
    /\ UNCHANGED <<cache, VALID_STATES, now, provider, req, cb, hist, call, served,
                   merged, search, top>>

\* services.twitch.auth.get_oauth_token: the error it raises for a response
get_oauth_token(response) ==
    IF response.status_code # 200
    THEN Error(400, "Failed to retrieve access token", "", 0) ELSE NoError

\* services.twitch.auth.refresh_oauth_token: the error it raises for a response
refresh_oauth_token(response) ==
    IF response.status_code # 200
    THEN Error(400, "Failed to refresh access token", "", 0) ELSE NoError

\* a call of one of the two Twitch token functions that the provider answers
TwitchTokenCall(u) ==
    /\ \E f \in {"get_oauth_token", "refresh_oauth_token"},
          response \in {r \in TokenResponses : r.status_code # 0} :
        LET error == IF f = "get_oauth_token" THEN get_oauth_token(response)
                     ELSE refresh_oauth_token(response)
        IN  resp' = [route |-> f, user |-> u, code |-> "", state |-> "",
                     before |-> session[u], exchange_called |-> TRUE,
                     code_verifier |-> "", response |-> response,
                     status_code |-> IF error = NoError THEN 200 ELSE error.status_code,
                     error |-> error]
    /\ UNCHANGED <<session, cache, VALID_STATES, now, provider, req, cb, hist, call,
                   served, merged, search, top>>

ExchangeNext ==
    \/ \E u \in Users : kick_oauth_callback(u)
    \/ \E u \in Users : kick_refresh_token(u)
    \/ \E u \in Users : KickClear(u)
    \/ \E u \in Users : TwitchTokenCall(u)

(***************************************************************************)
(* The order in which the multi-platform operations issue their upstream   *)
(* calls, on a cache miss: followed streams, top streams and search.       *)
(***************************************************************************)
FanOutOperations == {"get_followed_streams", "top_streams", "search_all_platforms"}

\* the platforms an operation fetches from, in the order the code names them
BranchOrder(op, s) ==
    IF op = "get_followed_streams"
    THEN (IF Has(s, "twitch_credentials") THEN <<"twitch">> ELSE <<>>)
         \o (IF Has(s, "google_credentials") THEN <<"youtube">> ELSE <<>>)
    ELSE IF op = "top_streams" THEN <<"twitch", "kick", "youtube">>
    ELSE <<"kick", "twitch", "youtube">>

\* asyncio.gather starts every branch before the handler suspends; a chain
\* of "x = await f(); y = await g()" starts g only when f has returned
Gathers(op) == op \in {"top_streams", "search_all_platforms"}

\* the status of every platform's call when the handler first suspends
started_branches(op, s) ==
    LET order == BranchOrder(op, s)
    IN  [p \in SearchPlatforms |->
            IF \A i \in DOMAIN order : order[i] # p THEN "skipped"
            ELSE IF Gathers(op) \/ order[1] = p THEN "in_flight"
            ELSE "waiting"]

\* the statuses once platform p's call has returned: in a chain of awaits
\* the handler resumes and issues the next call
resumed_branches(op, order, branch, p, outcome) ==
    [q \in SearchPlatforms |->
        IF q = p THEN outcome
        ELSE IF ~Gathers(op) /\ branch[q] = "waiting"
                /\ \E i \in DOMAIN order : i > 1 /\ order[i] = q /\ order[i - 1] = p
        THEN "in_flight"
        ELSE branch[q]]

\* the handler runs up to its first suspension
fanout_start(u) ==
    /\ req[u] = None
    /\ \E op \in FanOutOperations :
        req' = [req EXCEPT ![u] = [op |-> op, order |-> BranchOrder(op, session[u]),
                                   branch |-> started_branches(op, session[u])]]
    /\ resp' = None
    /\ UNCHANGED <<session, cache, VALID_STATES, now, provider, cb, hist, call,
                   served, merged, search, top>>

\* one platform's upstream call returns or raises
branch_complete(u) ==
    /\ req[u] # None
    /\ \E p \in SearchPlatforms, outcome \in {"returned", "raised"} :
        /\ req[u].branch[p] = "in_flight"
        /\ req' = [req EXCEPT ![u].branch =
                      resumed_branches(req[u].op, req[u].order, @, p, outcome)]
    /\ resp' = None
    /\ UNCHANGED <<session, cache, VALID_STATES, now, provider, cb, hist, call,
                   served, merged, search, top>>

\* every branch is over: the results are combined and the response leaves
fanout_finish(u) ==
    /\ req[u] # None
    /\ \A p \in SearchPlatforms : req[u].branch[p] \in {"skipped", "returned", "raised"}
    /\ req' = [req EXCEPT ![u] = None]
    /\ resp' = [user |-> u, op |-> req[u].op, branch |-> req[u].branch]
    /\ UNCHANGED <<session, cache, VALID_STATES, now, provider, cb, hist, call,
                   served, merged, search, top>>

FanOutNext ==
    \/ \E u \in Users : TwitchLogin(u)
    \/ \E u \in Users : GoogleLogin(u)
    \/ \E u \in Users : fanout_start(u)
    \/ \E u \in Users : branch_complete(u)
    \/ \E u \in Users : fanout_finish(u)

(***************************************************************************)
(* The normalization of raw platform items into the unified schemas.       *)
(***************************************************************************)
PyBool(b) == [bool |-> b]

\* the fields of a merged Twitch item that may be absent, with a value of
\* the type Twitch sends
TwitchOptional ==
    [id |-> PyStr("141981764"), login |-> PyStr("ann"), display_name |-> PyStr("Ann"),
     viewer_count |-> PyInt(7), language |-> PyStr("en"), is_mature |-> PyBool(TRUE)]

\* the fields of a raw Kick item that may be absent
KickOptional ==
    [broadcaster_user_id |-> PyInt(7), slug |-> PyStr("ann"),
     stream_title |-> PyStr("live now"), viewer_count |-> PyInt(7),
     has_mature_content |-> PyBool(TRUE),
     category |-> PyDict(<<[k |-> PyStr("name"), v |-> PyStr("Just Chatting")]>>)]

\* the raw items in which any subset of the optional fields is absent
RawItems(optional) == {[f \in present |-> optional[f]] : present \in SUBSET DOMAIN optional}

\* dict.get(key, default)
Get(d, key, default) == IF key \in DOMAIN d THEN d[key] ELSE default

\* str(x) of a string or of an integer
Str(x) == IF Is(x, "int") THEN PyStr(IntText(x.int)) ELSE x

\* Literal["Twitch", "YouTube"]
FollowedStreamerPlatforms == {"Twitch", "YouTube"}

\* Literal["twitch", "kick", "youtube"]
StreamPlatforms == {"twitch", "kick", "youtube"}

\* pydantic's validation of the FollowedStreamer fields
FollowedStreamer_accepts(r) ==
    /\ \A f \in {"id", "login", "display_name", "user_id", "user_login", "user_name",
                 "language"} : Is(r[f], "str")
    /\ Is(r.viewer_count, "int")
    /\ Is(r.is_mature, "bool")
    /\ Is(r.platform, "str") /\ r.platform.str \in FollowedStreamerPlatforms

\* pydantic's validation of the Stream fields
Stream_accepts(r) ==
    /\ \A f \in {"id", "user_id", "user_name", "title", "language"} : Is(r[f], "str")
    /\ Is(r.viewer_count, "int")
    /\ Is(r.is_mature, "bool")
    /\ Is(r.platform, "str") /\ r.platform.str \in StreamPlatforms
    /\ r.game_name = None \/ Is(r.game_name, "str")

\* the keyword arguments standardize_data hands to FollowedStreamer
twitch_fields(user_data) ==
    [id |-> Get(user_data, "id", PyStr("")),
     login |-> Get(user_data, "login", PyStr("")),
     display_name |-> Get(user_data, "display_name", Get(user_data, "login", PyStr(""))),
     user_id |-> Get(user_data, "id", PyStr("")),
     user_login |-> Get(user_data, "login", PyStr("")),
     user_name |-> Get(user_data, "display_name", Get(user_data, "login", PyStr(""))),
     viewer_count |-> Get(user_data, "viewer_count", PyInt(0)),
     language |-> Get(user_data, "language", PyStr("")),
     is_mature |-> Get(user_data, "is_mature", PyBool(FALSE)),
     platform |-> PyStr("twitch")]

\* services.twitch.user.standardize_data: the model, or the ValidationError
\* of its constructor
standardize_data(user_data) ==
    LET fields == twitch_fields(user_data)
    IN  IF FollowedStreamer_accepts(fields)
        THEN [raised |-> FALSE, record |-> fields]
        ELSE [raised |-> TRUE, record |-> fields]

\* services.kick.public.standardize_kick_stream_data: a plain dict
standardize_kick_stream_data(item) ==
    [raised |-> FALSE,
     record |-> [id |-> Str(Get(item, "broadcaster_user_id", PyStr(""))),
                 user_id |-> Str(Get(item, "broadcaster_user_id", PyStr(""))),
                 user_name |-> Str(Get(item, "slug", PyStr(""))),
                 title |-> Get(item, "stream_title", PyStr("")),
                 viewer_count |-> Get(item, "viewer_count", PyInt(0)),
                 language |-> Get(item, "language", PyStr("")),
                 is_mature |-> Get(item, "has_mature_content", PyBool(FALSE)),
                 platform |-> PyStr("kick"),
                 game_name |-> IF "category" \in DOMAIN item
                               THEN item.category.dict[1].v ELSE PyStr("")]]

\* one raw item is normalized
Normalize ==
    /\ \E function \in {"standardize_data", "standardize_kick_stream_data"} :
        \E raw \in RawItems(IF function = "standardize_data" THEN TwitchOptional
                            ELSE KickOptional) :
            LET out == IF function = "standardize_data" THEN standardize_data(raw)
                       ELSE standardize_kick_stream_data(raw)
            IN  resp' = [function |-> function, raw |-> raw, raised |-> out.raised,
                         record |-> out.record,
                         accepted |-> IF function = "standardize_data"
                                      THEN FollowedStreamer_accepts(out.record)
                                      ELSE Stream_accepts(out.record)]
    /\ UNCHANGED <<session, cache, VALID_STATES, now, provider, req, cb, hist, call,
                   served, merged, search, top>>

(***************************************************************************)
(* The live subscriptions of YouTube: the probe of one channel, the        *)
(* batches of probes, the pages of subscriptions and the filter.           *)
(***************************************************************************)
ChannelIds == {"UC-a", "UC-b", "UC-c"}

\* what the two requests of one channel's probe can meet: the live page
\* cannot be fetched, it has no canonical link, the link is the channel's
\* own page, it is a watch link without or with a video id; then what the
\* videos API answers for that id
Probes ==
    {[page |-> p, video |-> "not asked"] : p \in {"raises", "no link", "channel", "watch?v="}}
    \cup {[page |-> "watch?v=id", video |-> v] :
             v \in {"raises", "error", "no items", "no liveStreamingDetails",
                    "scheduledStartTime", "actualStartTime"}}

\* the subscription lists: channels in the order the API returned them
RECURSIVE SeqsOf(_, _)
SeqsOf(S, n) ==
    IF n = 0 THEN {<<>>}
    ELSE LET shorter == SeqsOf(S, n - 1)
         IN  shorter \cup {Append(l, x) : l \in {m \in shorter : Len(m) = n - 1},
                                          x \in S}

Subscriptions ==
    {l \in SeqsOf(ChannelIds, MaxSubscribed) :
        \A i \in DOMAIN l, j \in DOMAIN l : l[i] = l[j] => i = j}

ChannelsOf(subscriptions) == {subscriptions[i] : i \in DOMAIN subscriptions}

\* check_channel_live_status_with_session: the channel_data it returns; the
\* "error" answer of the API and every exception give a dict without a true
\* "live"
check_channel_live_status_with_session(channel_id, probe) ==
    LET channel_data == [cid |-> channel_id, live |-> FALSE, configured |-> FALSE,
                         error |-> FALSE]
    IN  IF probe.page = "raises" THEN [channel_data EXCEPT !.error = TRUE]
        ELSE IF probe.page \in {"no link", "channel"} THEN channel_data
        ELSE IF probe.page = "watch?v=" THEN [channel_data EXCEPT !.configured = TRUE]
        ELSE IF probe.video = "raises"
             THEN [channel_data EXCEPT !.error = TRUE]
        ELSE IF probe.video = "error"
             THEN [channel_data EXCEPT !.error = TRUE]
        ELSE IF probe.video = "no items" THEN [channel_data EXCEPT !.configured = TRUE]
        ELSE [channel_data EXCEPT !.configured = TRUE,
                                  !.live = probe.video = "actualStartTime"]

\* services.google.user.standardize_data: the keyword arguments it hands to
\* FollowedStreamer, and whether the constructor accepts them
youtube_fields(channel_id) ==
    [id |-> PyStr(channel_id), login |-> PyStr(""), display_name |-> PyStr(""),
     user_id |-> PyStr(channel_id), user_login |-> PyStr(""), user_name |-> PyStr(""),
     viewer_count |-> PyInt(0), language |-> PyStr(""), is_mature |-> PyBool(FALSE),
     platform |-> PyStr("youtube")]

youtube_standardize_data(channel_id) ==
    LET fields == youtube_fields(channel_id)
    IN  [raised |-> ~FollowedStreamer_accepts(fields), record |-> fields]

\* enrich_and_filter_live_subscriptions: the live subscriptions in their
\* order, each standardized; an exception of a constructor leaves the function
enrich_and_filter_live_subscriptions(subscriptions, live_statuses) ==
    LET live_subs == SelectSeq(subscriptions, LAMBDA c : live_statuses[c].live)
        standardized == [i \in DOMAIN live_subs |-> youtube_standardize_data(live_subs[i])]
    IN  IF \E i \in DOMAIN standardized : standardized[i].raised
        THEN [raised |-> TRUE, live |-> <<>>]
        ELSE [raised |-> FALSE, live |-> live_subs]

\* the live subscriptions of one list of subscriptions are worked out
LiveSubscriptions ==
    /\ served = 0
    /\ served' = 1
    /\ \E subscriptions \in Subscriptions : \E probe \in [ChannelsOf(subscriptions) -> Probes] :
        LET live_statuses == [c \in ChannelsOf(subscriptions) |->
                                 check_channel_live_status_with_session(c, probe[c])]
            out == enrich_and_filter_live_subscriptions(subscriptions, live_statuses)
        IN  resp' = [function |-> "enrich_and_filter_live_subscriptions",
                     subscriptions |-> subscriptions, probe |-> probe,
                     raised |-> out.raised, live |-> out.live]
    /\ UNCHANGED <<session, cache, VALID_STATES, now, provider, req, cb, hist, call,
                   merged, search, top>>

(***************************************************************************)
(* The batched live-status check: check_all_channels_live_status.          *)
(***************************************************************************)
\* "if len(current_batch) == 50"
BatchSize == 50

\* the channel ids of n subscriptions, in the order of the list; a user is
\* subscribed to a channel once
SubscribedIds(n) == [i \in 1..n |-> i]

\* what the probes of one call find: no channel live, every second one, all
LivePatterns == {"none", "even", "all"}

IsLive(pattern, channel_id) ==
    \/ pattern = "all"
    \/ pattern = "even" /\ channel_id % 2 = 0

\* one turn of "for subscription in subscriptions": the channel id joins
\* the batch being filled, and a batch of BatchSize ids is closed
batch_append(channel_batches, current_batch, channel_id) ==
    LET filled == Append(current_batch, channel_id)
    IN  IF Len(filled) = BatchSize
        THEN [channel_batches |-> Append(channel_batches, filled),
              current_batch |-> <<>>]
        ELSE [channel_batches |-> channel_batches, current_batch |-> filled]

\* the batches without "Add any remaining channels"
remaining_dropped(channel_batches, current_batch) == channel_batches

\* "Add any remaining channels"
remaining_added(channel_batches, current_batch) ==
    IF current_batch # <<>> THEN Append(channel_batches, current_batch)
    ELSE channel_batches

\* check_multiple_channels_live_status: the dict of one batch, a status
\* for each of its channel ids
check_multiple_channels_live_status(batch, pattern) ==
    [c \in {batch[i] : i \in 1..Len(batch)} |->
        [cid |-> c, live |-> IsLive(pattern, c)]]

\* live_statuses.update(result) for each result in turn
RECURSIVE update_all(_, _, _)
update_all(live_statuses, results, i) ==
    IF i > Len(results) THEN live_statuses
    ELSE update_all([c \in DOMAIN live_statuses \cup DOMAIN results[i] |->
                        IF c \in DOMAIN results[i] THEN results[i][c]
                        ELSE live_statuses[c]],
                    results, i + 1)

\* the call, up to the grouping loop
check_all_start ==
    /\ served = 0
    /\ served' = 1
    /\ \E n \in 0..MaxChannels :
           resp' = [function |-> "check_all_channels_live_status",
                    ids |-> SubscribedIds(n), position |-> 1,
                    channel_batches |-> <<>>, current_batch |-> <<>>,
                    pattern |-> "unprobed", live_statuses |-> <<>>,
                    returned |-> FALSE]
    /\ UNCHANGED <<session, cache, VALID_STATES, now, provider, req, cb, hist, call,
                   merged, search, top>>

\* one turn of the grouping loop
check_all_group ==
    /\ resp # None /\ ~resp.returned
    /\ resp.position <= Len(resp.ids)
    /\ LET grouped == batch_append(resp.channel_batches, resp.current_batch,
                                   resp.ids[resp.position])
       IN  resp' = [resp EXCEPT !.position = @ + 1,
                                !.channel_batches = grouped.channel_batches,
                                !.current_batch = grouped.current_batch]
    /\ UNCHANGED <<session, cache, VALID_STATES, now, provider, req, cb, hist, call,
                   served, merged, search, top>>

\* after the loop: the remaining channels, one task per batch, the gather
\* and the merge of the batches' dicts
check_all_finish ==
    /\ resp # None /\ ~resp.returned
    /\ resp.position > Len(resp.ids)
    /\ \E pattern \in LivePatterns :
        LET batches == remaining_added(resp.channel_batches, resp.current_batch)
            results == [b \in 1..Len(batches) |->
                           check_multiple_channels_live_status(batches[b], pattern)]
        IN  resp' = [resp EXCEPT !.channel_batches = batches,
                                 !.current_batch = <<>>,
                                 !.pattern = pattern,
                                 !.live_statuses = update_all(<<>>, results, 1),
                                 !.returned = TRUE]
    /\ UNCHANGED <<session, cache, VALID_STATES, now, provider, req, cb, hist, call,
                   served, merged, search, top>>

check_all_channels_live_status ==
    check_all_start \/ check_all_group \/ check_all_finish

(***************************************************************************)
(* The paged subscription listing: fetch_all_subscriptions.                *)
(***************************************************************************)
\* the items of page p when it holds n of them
PageItems(p, n) == [i \in 1..n |-> <<p, i>>]

\* the listings the provider can hold: one to MaxPages pages of up to
\* MaxPageItems items; a page's number stands for the token that asks for it
Listings ==
    UNION {[1..n -> 0..MaxPageItems] : n \in 1..MaxPages}

\* subscriptions().list(pageToken=token).execute() on a listing: the page's
\* items and, on every page but the last, the nextPageToken
list_page(listing, token) ==
    [items |-> PageItems(token, listing[token]),
     nextPageToken |-> IF token < Len(listing) THEN <<token + 1>> ELSE <<>>]

\* all_items = next_page["items"]
extend_replacing(all_items, items) == items

\* all_items.extend(next_page["items"])
extend(all_items, items) == all_items \o items

\* the first request, up to the while loop
fetch_first_page ==
    /\ resp = None
    /\ \E listing \in Listings :
           LET subscriptions == list_page(listing, 1)
           IN  resp' = [function |-> "fetch_all_subscriptions", listing |-> listing,
                        requests |-> <<1>>,
                        all_items |-> extend(<<>>, subscriptions.items),
                        next_page_token |-> subscriptions.nextPageToken,
                        returned |-> FALSE]
    /\ UNCHANGED <<session, cache, VALID_STATES, now, provider, req, cb, hist, call,
                   served, merged, search, top>>

\* one turn of "while next_page_token"
fetch_next_page ==
    /\ resp # None /\ ~resp.returned
    /\ resp.next_page_token # <<>>
    /\ LET token == resp.next_page_token[1]
           next_page == list_page(resp.listing, token)
       IN  resp' = [resp EXCEPT !.requests = Append(@, token),
                                !.all_items = extend(@, next_page.items),
                                !.next_page_token = next_page.nextPageToken]
    /\ UNCHANGED <<session, cache, VALID_STATES, now, provider, req, cb, hist, call,
                   served, merged, search, top>>

\* the loop is left and all_items returned
fetch_return ==
    /\ resp # None /\ ~resp.returned
    /\ resp.next_page_token = <<>>
    /\ resp' = [resp EXCEPT !.returned = TRUE]
    /\ UNCHANGED <<session, cache, VALID_STATES, now, provider, req, cb, hist, call,
                   served, merged, search, top>>

fetch_all_subscriptions == fetch_first_page \/ fetch_next_page \/ fetch_return

(***************************************************************************)
(* GET /api/twitch/oauth/public_token.                                     *)
(***************************************************************************)
\* the app token of the client-credentials grant the endpoint falls back
\* to; the grant's token data carries no last_validated
get_app_access_token ==
    [access_token |-> "public", refresh_token |-> FALSE, last_validated |-> <<>>]

\* the provider's answers ensure_valid_token looks at on session s
AnswersFor(s, current_time) ==
    IF credentials_key_of(s) # "" /\ Cred0(s).access_token # ""
       /\ force_validation(Cred0(s), current_time)
    THEN IF Cred0(s).refresh_token THEN ProviderAnswers
         ELSE {a \in ProviderAnswers : a.refresh = "ok"}
    ELSE {NoAnswers}

\* the endpoint on session s: the stored public credential when
\* ensure_valid_token returns True, else a new app token stored in its place
twitch_public_token_respond(u, s, current_time, answers, issue_ok) ==
    LET called == Has(s, "twitch_public_credentials")
        r == IF called THEN ensure_valid_token(s, current_time, answers)
             ELSE Outcome(s, FALSE, FALSE, 0, 0)
        stored == called /\ ~r.raised /\ r.returned
        status == IF r.raised THEN 500
                  ELSE IF stored \/ issue_ok THEN 200 ELSE 502
        after == IF r.raised THEN s
                 ELSE IF stored THEN r.session
                 ELSE IF issue_ok
                      THEN [r.session EXCEPT !.twitch_public_credentials =
                                                 get_app_access_token]
                      ELSE r.session
    IN  [after |-> after,
         last |-> [user |-> u, route |-> "public_token", called |-> called,
                   before |-> s, current_time |-> current_time,
                   answers |-> answers, result |-> r, status |-> status,
                   returned_stored |-> stored]]

twitch_public_token(u) ==
    /\ req[u] = None
    /\ \A sl \in Slots : call.inflight[sl] = None
    /\ served < MaxPublicRequests
    /\ served' = served + 1
    /\ \E answers \in AnswersFor(session[u], now), issue_ok \in BOOLEAN :
           LET done == twitch_public_token_respond(u, session[u], now, answers, issue_ok)
           IN  /\ session' = [session EXCEPT ![u] = done.after]
               /\ call' = [call EXCEPT !.last = done.last]
    /\ resp' = None
    /\ UNCHANGED <<cache, VALID_STATES, now, provider, req, cb, hist, merged,
                   search, top>>

PublicNext ==
    \/ Tick
    \/ \E u \in TokenUsers : TwitchLogin(u)
    \/ \E u \in TokenUsers : TwitchLogout(u)
    \/ \E u \in TokenUsers : twitch_public_token(u)

(***************************************************************************)
(* The Google OAuth flow: /api/google/authorize and /oauth2callback.       *)
(***************************************************************************)
\* the state query parameter a callback request can carry: none, or a
\* state string
CallbackStates == {""} \cup StateTokens

\* /api/google/authorize: the flow draws a state and the session keeps it
authorize(u) ==
    /\ \E state \in StateTokens :
           session' = [session EXCEPT ![u].state = [value |-> state]]
    /\ resp' = None
    /\ UNCHANGED <<cache, VALID_STATES, now, provider, req, cb, hist, call, served,
                   merged, search, top>>

\* /api/google/oauth2callback.  The flow is built with the state of the
\* query, and fetch_token compares the state of the request URL with it.
oauth2callback(u) ==
    /\ \E state \in CallbackStates, token_ok \in BOOLEAN :
        LET flow_state == state
            url_state == state
            exchanged == state # "" /\ url_state = flow_state
            stored == exchanged /\ token_ok
        IN  /\ session' = IF stored
                          THEN [session EXCEPT ![u] = StoreGoogleLogin(@)]
                          ELSE session
            /\ resp' = [route |-> "oauth2callback", user |-> u, state |-> state,
                        session_state |-> session[u].state,
                        exchanged |-> exchanged, stored |-> stored,
                        status |-> IF state = "" THEN 400
                                   ELSE IF stored THEN 302 ELSE 500]
    /\ UNCHANGED <<cache, VALID_STATES, now, provider, req, cb, hist, call, served,
                   merged, search, top>>

GoogleNext ==
    \/ \E u \in Users : authorize(u)
    \/ \E u \in Users : oauth2callback(u)
    \/ \E u \in Users : GoogleLogout(u)

(***************************************************************************)
(* GET /api/auth/status.                                                   *)
(***************************************************************************)
\* check_login_status on session s: loggedIn of each platform
check_login_status(s) ==
    [Youtube |-> Has(s, "google_credentials"),
     Twitch |-> Has(s, "twitch_credentials"),
     Kick |-> Has(s, "kick_credentials")]

Init ==
    /\ session = [u \in Users |-> NoCreds]
    /\ cache = <<>>
    /\ VALID_STATES = {}
    /\ now = 0
    /\ provider = [u \in Users |-> [validated_at |-> <<>>, early |-> FALSE]]
    /\ req = [u \in Users |-> None]
    /\ resp = None
    /\ cb = [i \in 1..MaxCallbacks |-> None]
    /\ hist = [last |-> [s \in StateTokens |-> "none"],
               passes |-> [s \in StateTokens |-> 0], lastcb |-> None]
    /\ call = [inflight |-> [sl \in Slots |-> None], last |-> None]
    /\ served = 0
    /\ merged = None
    /\ search = None
    /\ top = None

SpecMerge == Init /\ [][MergeStreams]_vars

SpecFollow == Init /\ [][FollowNext]_vars

SpecState == Init /\ [][StateNext]_vars

SpecToken == Init /\ [][TokenNext]_vars

SpecSession == Init /\ [][SessionNext]_vars

SpecSearch == Init /\ [][SearchNext]_vars

SpecTop == Init /\ [][TopNext]_vars

SpecCache == Init /\ [][CacheNext]_vars

SpecColdKey == Init /\ [][ColdKeyNext]_vars

SpecExchange == Init /\ [][ExchangeNext]_vars

SpecFanOut == Init /\ [][FanOutNext]_vars

SpecNormalize == Init /\ [][Normalize]_vars

SpecLive == Init /\ [][LiveSubscriptions]_vars

SpecEnsure == Init /\ [][EnsureNext]_vars

SpecPublic == Init /\ [][PublicNext]_vars

SpecGoogle == Init /\ [][GoogleNext]_vars

SpecBatch == Init /\ [][check_all_channels_live_status]_vars

SpecPages == Init /\ [][fetch_all_subscriptions]_vars

Range(s) == { s[i] : i \in 1..Len(s) }
PosIn(s, x) == CHOOSE i \in 1..Len(s) : s[i] = x

\* C8: the list returned on a cache miss is a permutation of the Twitch
\* streams followed by the YouTube streams (none lost, none duplicated), its
\* viewer counts never increase, and streams of equal viewer count keep the
\* order they have in the concatenation (Twitch before YouTube).
C8_SortedStablePermutation ==
    merged # None =>
        LET in == merged.twitch_streams \o merged.youtube_streams
            out == merged.results
        IN  /\ Len(out) = Len(in)
            /\ Range(out) = Range(in)
            /\ \A i, j \in 1..Len(out) :
                   i < j => out[i].viewer_count >= out[j].viewer_count
            /\ \A i, j \in 1..Len(in) :
                   (i < j /\ in[i].viewer_count = in[j].viewer_count)
                       => PosIn(out, in[i]) < PosIn(out, in[j])

\* a merge in which a YouTube stream with more viewers overtakes a Twitch
\* stream (500 against 1200) and a Twitch stream ties with a YouTube stream
C8_Witness ==
    /\ merged # None
    /\ \E t \in Range(merged.twitch_streams), y \in Range(merged.youtube_streams) :
           /\ t.viewer_count = 500 /\ y.viewer_count = 1200
           /\ PosIn(merged.results, y) < PosIn(merged.results, t)
    /\ \E t \in Range(merged.twitch_streams), y \in Range(merged.youtube_streams) :
           /\ t.viewer_count = y.viewer_count
           /\ PosIn(merged.results, t) < PosIn(merged.results, y)

EntriesOf(p, streams) == SelectSeq(streams, LAMBDA x : x.platform = p)

C7_FetchFailureIsolated ==
    (resp # None /\ ~resp.from_cache
        /\ (resp.twitch_fetch = "raised" \/ resp.youtube_fetch = "raised")) =>
        /\ resp.status = 200
        /\ EntriesOf("twitch", resp.streams) =
               (IF resp.twitch_fetch = "ok" THEN resp.twitch_live ELSE <<>>)
        /\ EntriesOf("youtube", resp.streams) =
               (IF resp.youtube_fetch = "ok" THEN resp.youtube_live ELSE <<>>)

\* the Twitch fetch raised and the response carries the YouTube live stream
C7_Witness ==
    /\ resp # None
    /\ resp.twitch_fetch = "raised"
    /\ resp.youtube_fetch = "ok"
    /\ resp.youtube_live # <<>>
    /\ resp.streams = resp.youtube_live
    /\ resp.status = 200

\* C3: a callback that reaches the state check passes it, and goes on to the
\* token exchange, exactly when its state was added by an earlier /login and
\* no callback has passed with that value since; of the callbacks carrying
\* one state, also concurrent ones, at most one passes per /login.
C3_StateSingleUse ==
    /\ (hist.lastcb # None /\ hist.lastcb.error = "") =>
           (hist.lastcb.passed <=> hist.lastcb.before = "login")
    /\ \A s \in StateTokens : hist.passes[s] <= 1

\* a second callback with a state that a first callback, still exchanging
\* its code, has consumed: it is turned away
C3_Witness ==
    /\ hist.lastcb # None
    /\ hist.lastcb.error = ""
    /\ hist.lastcb.before = "passed"
    /\ ~hist.lastcb.passed
    /\ hist.lastcb.others = 1

\* the credential ensure_valid_token works on in session s
Cred(s) == s[credentials_key_of(s)]

\* the last request was an /authenticated that called ensure_valid_token
EnsureCalled == call.last # None /\ call.last.called

\* C4: when ensure_valid_token finds the stored access token invalid and the
\* credential has no refresh_token or the refresh call fails, it returns
\* False and has removed the credential from the session.
C4_InvalidTokenDiscarded ==
    (/\ EnsureCalled
     /\ call.last.result.validate_calls = 1
     /\ call.last.answers.validate = "invalid"
     /\ (~Cred(call.last.before).refresh_token
         \/ call.last.answers.refresh = "rejected"))
    => /\ ~call.last.result.returned
       /\ ~Has(call.last.result.session, credentials_key_of(call.last.before))

\* the credential of the last ensure_valid_token call was validated more
\* than an hour before the call, carries a refresh token the provider
\* accepts, and the provider answered the validation
OldWithValidRefreshToken ==
    /\ EnsureCalled
    /\ call.last.current_time - last_validated_of(Cred(call.last.before))
           > one_hour_in_seconds
    /\ Cred(call.last.before).refresh_token
    /\ call.last.answers.refresh = "ok"
    /\ call.last.answers.validate # "error"

C6_ValidatedAtMostHourly ==
    /\ \A u \in Users : ~provider[u].early
    /\ (/\ EnsureCalled
        /\ call.last.current_time - last_validated_of(Cred(call.last.before))
               < one_hour_in_seconds)
       => /\ call.last.result.validate_calls = 0
          /\ call.last.result.refresh_calls = 0
          /\ call.last.result.session = call.last.before
          /\ call.last.result.returned

\* the search calls that raised in the last search_all_platforms call
Raising == {p \in SearchPlatforms : search.outcome[p] = "raises"}

\* C9: when exactly one of the three platform search calls raises,
\* search_all_platforms returns a dict whose key for the failing platform is
\* null and whose other two keys hold the results of their own platform's
\* call.
C9_OneSearchFails ==
    (search # None /\ ~search.from_cache /\ search.status = 200
     /\ Cardinality(Raising) = 1)
    => \A p \in SearchPlatforms :
          search.result[p] =
              IF p \in Raising THEN None
              ELSE IF search.outcome[p] = "found"
                   THEN [platform |-> p, id |-> <<p, search.username>>]
              ELSE IF p = "kick" THEN [platform |-> "kick", id |-> <<>>]
              ELSE None

\* Kick's call raises while Twitch and YouTube both find the user
C9_Witness ==
    /\ search # None
    /\ ~search.from_cache
    /\ search.status = 200
    /\ Raising = {"kick"}
    /\ search.outcome["twitch"] = "found"
    /\ search.outcome["youtube"] = "found"
    /\ search.result["kick"] = None
    /\ search.result["twitch"] = [platform |-> "twitch", id |-> <<"twitch", search.username>>]
    /\ search.result["youtube"] = [platform |-> "youtube", id |-> <<"youtube", search.username>>]

\* the branches of the last top-streams request that had to fetch and whose
\* fetch failed
FailedBranches ==
    {p \in SearchPlatforms : p \notin top.cached /\ top.out[p].raises}

\* C10: in the unified top-streams endpoint a failure of one platform's
\* branch degrades only that platform's entry to empty: the request answers
\* 200 and carries the other platforms' streams.
C10_TopStreamsDegrade ==
    (top # None /\ top.has_credentials /\ Cardinality(FailedBranches) = 1)
    => /\ top.status = 200
       /\ \A p \in SearchPlatforms :
             p \notin top.cached =>
                 top.result[p] = (IF p \in FailedBranches THEN <<>> ELSE top.out[p].streams)

SessionKeys == DOMAIN NoCreds

\* between sessions s and t only the keys in keys may differ
OnlyKeysChanged(s, t, keys) == \A k \in SessionKeys \ keys : t[k] = s[k]

\* C11: an operation that discards one platform's credential (Twitch logout,
\* Google logout, Kick clear, ensure_valid_token after a rejected refresh)
\* removes that platform's credential key and leaves every other key of the
\* session as it was.
C11_PlatformsIndependent ==
    [][ /\ \A u \in Users :
              /\ TwitchLogout(u) =>
                     OnlyKeysChanged(session[u], session'[u], {"twitch_credentials"})
              /\ GoogleLogout(u) =>
                     OnlyKeysChanged(session[u], session'[u], {"google_credentials"})
              /\ KickClear(u) =>
                     OnlyKeysChanged(session[u], session'[u], {"kick_credentials"})
        /\ (/\ call'.last # None
            /\ call'.last.called
            /\ ~Has(call'.last.result.session, credentials_key_of(call'.last.before)))
           => OnlyKeysChanged(call'.last.before, call'.last.result.session,
                              {credentials_key_of(call'.last.before)})
      ]_vars

\* ensure_valid_token has just discarded a Twitch credential whose refresh
\* the provider rejected, in a session that is logged in to Google and Kick
C11_Witness ==
    /\ EnsureCalled
    /\ call.last.answers.refresh = "rejected"
    /\ ~Has(call.last.result.session, "twitch_credentials")
    /\ Has(call.last.result.session, "twitch_user_profile")
    /\ Has(call.last.result.session, "google_credentials")
    /\ Has(call.last.result.session, "kick_credentials")
    /\ Has(session[call.last.user], "google_credentials")
    /\ Has(session[call.last.user], "kick_credentials")

\* C12: when the key-value store raises while get_followed_streams reads its
\* key, the read counts as a miss: the request does not fail.
C12_CacheErrorIsMiss ==
    (resp # None /\ resp.read_raised) => resp.status = 200

\* the streams the platform fetches of the last response handed over
FreshStreams ==
    CombineAndSort(IF resp.twitch_fetch = "ok" THEN resp.twitch_live ELSE <<>>,
                   IF resp.youtube_fetch = "ok" THEN resp.youtube_live ELSE <<>>)

\* C13: when the store raises during set_cache, set_cache answers False
\* without raising, the cache content stays as it was, and the fetcher still
\* returns the freshly fetched data.
C13_FailedWriteSwallowed ==
    (resp # None /\ resp.write_failed)
    => /\ cache = resp.cache_before
       /\ resp.status = 200
       /\ resp.streams = FreshStreams

\* a response that carries a fetched stream although its cache write failed
C13_Witness ==
    /\ resp # None
    /\ resp.write_failed
    /\ resp.status = 200
    /\ resp.youtube_fetch = "ok"
    /\ resp.youtube_live # <<>>
    /\ resp.streams = FreshStreams
    /\ following_cache_key(<<ChannelId(resp.user)>>) \notin DOMAIN cache

\* the observation of the last get_cache of a key that has been set
ObservedGet ==
    resp # None /\ "op" \in DOMAIN resp /\ resp.op = "get" /\ resp.key \in DOMAIN cache

\* C14: a get_cache of a key before the time to live of its last set_cache
\* has elapsed returns the value that was set, as a JSON round trip leaves
\* it; once the time to live has elapsed it returns None.
C14_CacheRoundTrip ==
    ObservedGet =>
        LET e == cache[resp.key]
        IN  IF resp.at < e.set_at + e.expiration
            THEN resp.returned = json_loads(json_dumps(e.data))
            ELSE resp.returned = None

\* a falsy value (the empty list) is read back before its time to live has
\* elapsed, at the last moment before it does
C14_Witness ==
    /\ ObservedGet
    /\ cache[resp.key].data = PyList(<<>>)
    /\ resp.at + 1 = cache[resp.key].set_at + cache[resp.key].expiration
    /\ resp.returned = PyList(<<>>)

\* the requests that missed the cache and whose fetch was answered
Fetched == {u \in Users : req[u] # None /\ "phase" \in DOMAIN req[u]
                          /\ req[u].phase = "done" /\ ~req[u].hit /\ ~req[u].failed}

Fetching == {u \in Users : req[u] # None /\ "phase" \in DOMAIN req[u]
                           /\ req[u].phase = "fetching"}

\* C15: requests that miss the same cold key each return what they fetched
\* themselves and none fails; once they are done the key holds one value,
\* the one written last.
C15_ColdKeyRace ==
    /\ \A u \in Fetched :
        req[u].returned = [i \in DOMAIN req[u].response |-> validate_fetched(req[u].response[i])]
    /\ (Fetching = {} /\ top # None /\ twitch_cache_key \in DOMAIN cache) =>
        /\ cache[twitch_cache_key].writer = top.last_write.writer
        /\ cache[twitch_cache_key].text = json_dumps(jsonable_encoder(top.last_write.data))

\* two requests missed the key together, fetched different streams, both
\* wrote, and the key holds what the second one wrote
C15_Witness ==
    /\ Fetched = Users
    /\ \A u \in Users : req[u].raced
    /\ req["u1"].returned = <<PyModel("s1")>>
    /\ req["u2"].returned = <<PyModel("s2")>>
    /\ twitch_cache_key \in DOMAIN cache
    /\ cache[twitch_cache_key].writer = "u2"
    /\ get_cache_at(twitch_cache_key, now)
         = PyDict(<<[k |-> PyStr("data"),
                     v |-> PyList(<<PyDict(<<[k |-> PyStr("id"), v |-> PyStr("s2")]>>)>>)]>>)

\* C16: GET /api/twitch/oauth/refresh answers 401 whenever the Twitch
\* credential, the stored user profile or the refresh token it needs is not
\* there to be used.
C16_MissingCredentialIs401 ==
    (call.last # None /\ call.last.route = "refresh" /\ call.last.missing # "none")
        => call.last.status = 401

\* the last operation was a token exchange or refresh that the provider
\* answered with a status other than 200
ProviderRefused ==
    /\ resp # None /\ "route" \in DOMAIN resp
    /\ resp.exchange_called
    /\ resp.response.status_code \notin {0, 200}

\* C17: a token exchange or refresh that the provider answers with a status
\* other than 200 fails with an error that carries that status, as its own
\* status or in its text, and the body of the provider's answer.
C17_ProviderErrorCarried ==
    ProviderRefused =>
        /\ resp.error # NoError
        /\ resp.response.status_code \in {resp.error.status_code, resp.error.inner_status}
        /\ resp.error.body = resp.response.text

\* the states from which no codeVerifier can be read
WithoutVerifier == {"garbage", "e30="}

KickCallbackAnswered ==
    /\ resp # None /\ "route" \in DOMAIN resp
    /\ resp.route = "kick_oauth_callback" /\ resp.code # ""

\* C18: the Kick callback answers a state it cannot decode with an HTTP
\* error, without calling the token endpoint and without touching the
\* session; a state it can decode goes to the token endpoint with whatever
\* codeVerifier it holds.
C18_KickStateHandling ==
    KickCallbackAnswered =>
        IF resp.state \in WithoutVerifier
        THEN /\ resp.status_code >= 400
             /\ ~resp.exchange_called
             /\ session[resp.user] = resp.before
        ELSE /\ resp.exchange_called
             /\ resp.code_verifier = resp.state

\* a logged-in user's callback with a state that is no base64 at all is
\* answered 500 and the credentials stay
C18_Witness ==
    /\ KickCallbackAnswered
    /\ resp.state = "garbage"
    /\ resp.status_code = 500
    /\ Has(resp.before, "kick_credentials")
    /\ session[resp.user] = resp.before

\* C19: while an operation's fetches are under way, no platform's call is
\* held back behind a call of another platform that has not returned yet.
C19_ConcurrentFanOut ==
    \A u \in Users :
        (req[u] # None /\ "branch" \in DOMAIN req[u]) =>
            ~ \E p \in SearchPlatforms, q \in SearchPlatforms :
                req[u].branch[p] = "waiting" /\ req[u].branch[q] = "in_flight"

\* C20: a normalization function never raises on a raw item that lacks some
\* of its optional fields, and what it returns is accepted by its schema.
C20_NormalizationTotal ==
    (resp # None /\ "function" \in DOMAIN resp) => (~resp.raised /\ resp.accepted)

\* the subscriptions whose live page links to a video that has started
StartedChannels ==
    SelectSeq(resp.subscriptions,
              LAMBDA c : resp.probe[c].page = "watch?v=id"
                         /\ resp.probe[c].video = "actualStartTime")

\* C21: the live result holds, in the subscriptions' order, exactly the
\* channels whose live page links to a video whose liveStreamingDetails has
\* an actualStartTime; a probe that fails makes its channel not live.
C21_LiveIffStarted ==
    (resp # None /\ "probe" \in DOMAIN resp) =>
        (~resp.raised /\ resp.live = StartedChannels)

\* C22: a followed-streams request never goes to the platforms while the
\* cache still holds the entry that an earlier request of the same user
\* wrote under the same key.
C22_ReadThrough ==
    \A u \in Users :
        (/\ req[u] # None /\ "cache_key" \in DOMAIN req[u]
         /\ req[u].has_twitch_session \/ req[u].has_youtube_session
         /\ req[u].cache_key \in DOMAIN cache)
            => cache[req[u].cache_key].writer # u

\* the last request called ensure_valid_token, which found the token invalid
\* at the provider, returned False and left the credential in the session,
\* and the request stored no other credential in its place
FoundInvalidAndKept ==
    /\ EnsureCalled
    /\ call.last.result.validate_calls = 1
    /\ call.last.answers.validate = "invalid"
    /\ ~call.last.result.returned /\ ~call.last.result.raised
    /\ Has(call.last.result.session, credentials_key_of(call.last.before))
    /\ call.last.status = 400
    /\ session[call.last.user] = call.last.result.session

\* C23: once ensure_valid_token has found the token invalid and returned
\* False while the credential stays in the session, the next call on the
\* unchanged credential returns False too.
C23_InvalidStaysInvalid ==
    [][(/\ FoundInvalidAndKept
        /\ call'.last # None
        /\ call'.last # call.last
        /\ call'.last.called
        /\ call'.last.user = call.last.user
        /\ call'.last.before = session[call.last.user])
            => ~call'.last.result.returned]_vars

\* the Twitch credential of session s comes from a user's OAuth callback:
\* the token the callback stored, or a token refreshed from it
FromUserLogin(s) ==
    /\ Has(s, "twitch_credentials")
    /\ s.twitch_credentials.access_token \in {"user", "refreshed"}

\* C24: GET /api/auth/status reports Twitch loggedIn = true only for a
\* session whose twitch_credentials comes from a user's OAuth callback and
\* has not been removed by a logout; an app token never shows as logged in.
C24_LoggedInOnlyAfterCallback ==
    \A u \in Users : check_login_status(session[u]).Twitch => FromUserLogin(session[u])

\* the last request was a GET /api/twitch/oauth/refresh answered with 200
RefreshReturned ==
    call.last # None /\ call.last.route = "refresh" /\ call.last.status = 200

PublicTokenAnswered == call.last # None /\ call.last.route = "public_token"

\* C26: when GET /api/twitch/oauth/public_token returns the public
\* credential already in the session, the credential ensure_valid_token
\* examined was twitch_public_credentials and its last validation is less
\* than an hour old; and the endpoint leaves twitch_credentials as it was.
C26_PublicTokenValidated ==
    PublicTokenAnswered =>
        LET u == call.last.user
            before == call.last.before
        IN  /\ session[u].twitch_credentials = before.twitch_credentials
            /\ call.last.returned_stored =>
                   /\ credentials_key_of(before) = "twitch_public_credentials"
                   /\ call.last.current_time
                          - last_validated_of(session[u].twitch_public_credentials)
                      < one_hour_in_seconds

\* C27: the Google OAuth callback exchanges the authorization code and
\* stores google_credentials only when the state of its query equals the
\* state /authorize stored in the same session.
C27_GoogleStateChecked ==
    (/\ resp # None /\ "route" \in DOMAIN resp /\ resp.route = "oauth2callback"
     /\ resp.exchanged \/ resp.stored)
        => resp.session_state = [value |-> resp.state]

\* the last search ran on a cold cache with exactly one platform's public
\* credential missing from the session
OneCredentialLacking ==
    /\ search # None /\ ~search.from_cache
    /\ search.lacking \in {{"twitch"}, {"kick"}}

\* C28: search_all_platforms on a cold cache and a session that lacks the
\* public credential of Twitch or of Kick returns a result whose field for
\* that platform is null and whose other fields hold the results of their
\* platforms' calls.
C28_LackingCredentialIsolated ==
    OneCredentialLacking =>
        /\ search.status = 200
        /\ search.result # None
        /\ \A p \in SearchPlatforms :
               search.result[p] =
                   IF p \in search.lacking THEN None
                   ELSE standardize_search_result(
                            p, wrap(search_platform(p, search.username, search.outcome[p])))

\* the last operation was a check_all_channels_live_status call
Batched == resp # None /\ "channel_batches" \in DOMAIN resp

\* the batches of the last call one after the other
RECURSIVE Concat(_, _)
Concat(batches, b) ==
    IF b > Len(batches) THEN <<>> ELSE batches[b] \o Concat(batches, b + 1)

\* C29: check_all_channels_live_status cuts the channel ids into
\* consecutive batches: every batch is non-empty and holds at most 50 ids,
\* every batch but the last holds exactly 50, each id is probed in exactly
\* one batch, and the merged result has a status for every id.
C29_BatchesPartition ==
    (Batched /\ resp.returned) =>
        LET batches == resp.channel_batches
            ids == resp.ids
        IN  /\ \A b \in 1..Len(batches) :
                   /\ Len(batches[b]) \in 1..BatchSize
                   /\ b < Len(batches) => Len(batches[b]) = BatchSize
            /\ Concat(batches, 1) = ids
            /\ \A i \in 1..Len(ids) :
                   Cardinality({p \in {<<b, j>> : b \in 1..Len(batches), j \in 1..BatchSize} :
                                   /\ p[2] <= Len(batches[p[1]])
                                   /\ batches[p[1]][p[2]] = ids[i]}) = 1
            /\ DOMAIN resp.live_statuses = {ids[i] : i \in 1..Len(ids)}
            /\ \A i \in 1..Len(ids) :
                   resp.live_statuses[ids[i]] =
                       [cid |-> ids[i], live |-> IsLive(resp.pattern, ids[i])]

\* two full batches and a last batch of one channel
C29_Witness ==
    /\ Batched
    /\ resp.returned
    /\ Len(resp.ids) = 2 * BatchSize + 1
    /\ Len(resp.channel_batches) = 3
    /\ Len(resp.channel_batches[3]) = 1
    /\ resp.pattern = "even"
    /\ resp.live_statuses[2 * BatchSize + 1].live = FALSE
    /\ resp.live_statuses[2 * BatchSize].live = TRUE

\* a fetch_all_subscriptions call is under way or has returned
Paging == resp # None /\ "listing" \in DOMAIN resp

\* the items of the pages from page p on, in page order
RECURSIVE ItemsFrom(_, _)
ItemsFrom(listing, p) ==
    IF p > Len(listing) THEN <<>>
    ELSE PageItems(p, listing[p]) \o ItemsFrom(listing, p + 1)

\* C30: fetch_all_subscriptions asks for each page once and in order, asks
\* for no page after the page without nextPageToken, and returns the items
\* of all pages concatenated in page order, none lost and none twice.
C30_PagesInOrder ==
    Paging =>
        /\ resp.requests = [i \in 1..Len(resp.requests) |-> i]
        /\ Len(resp.requests) <= Len(resp.listing)
        /\ resp.next_page_token = <<>> <=> Len(resp.requests) = Len(resp.listing)
        /\ resp.returned =>
               /\ Len(resp.requests) = Len(resp.listing)
               /\ resp.all_items = ItemsFrom(resp.listing, 1)
               /\ \A i, j \in 1..Len(resp.all_items) :
                      resp.all_items[i] = resp.all_items[j] => i = j

\* three pages, the second one empty, fetched and returned
C30_Witness ==
    /\ Paging
    /\ resp.returned
    /\ resp.listing = <<2, 0, 1>>
    /\ resp.requests = <<1, 2, 3>>
    /\ resp.all_items = <<<<1, 1>>, <<1, 2>>, <<3, 1>>>>

====
